---------------------------- MODULE Spec2Model ----------------------------
(***************************************************************************)
(* The geospatial feature engine of Public-Works-Reporter: the map         *)
(* screen's dataset load, reference-point updates and proximity filter.    *)
(*                                                                         *)
(* The repository holds two versions of the map screen.  Both are modelled *)
(* by one state machine; the variable `screen` says which one is mounted:  *)
(*   "supabase"  src/App.tsx lines 355-982  (loads projects by query)      *)
(*   "static"    src/App.tsx lines 1009-1526 (loads six bundled layers)    *)
(* filterNearbyFeatures, calculateDistance and the GeoJSONLayer component  *)
(* (src/src/components/GeoJSONLayer.tsx) are also run on their own, each   *)
(* on bounded arguments: SpecFilter, SpecDistance, SpecLayer; so is the    *)
(* map's choice of a stroke per collection: SpecPalette.                   *)
(*                                                                         *)
(* Three more state machines stand beside the map screen:                  *)
(*   SpecCamera     CameraScreen, the report form and its submission       *)
(*                  (src/src/screens/ReportsScreen.tsx lines 443-705)      *)
(*   SpecReports    public.reports and the trigger that normalises its     *)
(*                  text arrays (src/App.tsx lines 197-230)                *)
(*   SpecCentroids  public.projects, the materialized view                 *)
(*                  projects_centroids and its refresh                     *)
(*                  (src/database-schema.md lines 213-271)                 *)
(* and nearby_projects is run on bounded calls over the view: SpecNearby.  *)
(* Its body is not in the sources, which give its signature and what it    *)
(* returns; it is modelled from the specification's query contract.        *)
(*                                                                         *)
(* Numbers.  A JavaScript value is a record [k, n, a]: k is its kind, n    *)
(* the value of a finite number, a the elements of an array.  Finite       *)
(* numbers are fixed point:                                                *)
(*   coordinates   1 unit = 0.0001 degree   (14.5995 is 145995)            *)
(*   distances     1 unit = 0.001 km        (10 km is 10000)               *)
(*   cosines       1 unit = 0.0001                                         *)
(*   half angles, sines, square roots       1 unit = 0.0000001             *)
(* calculateDistance is evaluated in this arithmetic for two points whose  *)
(* latitudes and longitudes differ by at most 0.37 degree; beyond that the *)
(* 32-bit integers of TLC overflow and the run stops with an error; a      *)
(* wrong distance is never returned silently.                              *)
(***************************************************************************)
EXTENDS Integers, Sequences, FiniteSets, TLC

(***************************************************************************)
(* JavaScript values                                                       *)
(***************************************************************************)
Num(v) == [k |-> "finite", n |-> v, a |-> <<>>]

NaN == [k |-> "NaN", n |-> 0, a |-> <<>>]

PosInfinity == [k |-> "Infinity", n |-> 0, a |-> <<>>]

NegInfinity == [k |-> "-Infinity", n |-> 0, a |-> <<>>]

Undefined == [k |-> "undefined", n |-> 0, a |-> <<>>]

\* a string of the given length (its characters are never inspected)
Str(len) == [k |-> "string", n |-> len, a |-> <<>>]

Arr(items) == [k |-> "array", n |-> 0, a |-> items]

\* typeof x === 'number'
TypeofNumber(x) == x.k \in {"finite", "NaN", "Infinity", "-Infinity"}

\* isNaN(x), for x of any type (a non-number is converted first)
IsNaN(x) ==
    CASE x.k = "NaN" -> TRUE
      [] x.k = "undefined" -> TRUE
      [] x.k = "string" -> x.n > 0
      [] x.k = "array" -> Len(x.a) > 1
      [] OTHER -> FALSE

\* Array.isArray(x)
IsArray(x) == x.k = "array"

\* !x
Falsy(x) ==
    \/ x.k = "undefined"
    \/ x.k = "NaN"
    \/ x.k = "finite" /\ x.n = 0
    \/ x.k = "string" /\ x.n = 0

\* x[i] with JavaScript's zero-based index; undefined past the end
Index(x, i) ==
    IF x.k = "array" /\ i + 1 <= Len(x.a) THEN x.a[i + 1] ELSE Undefined

\* x.length of an array
Length(x) == Len(x.a)

Abs(v) == IF v < 0 THEN -v ELSE v

(***************************************************************************)
(* Fixed-point arithmetic of calculateDistance                             *)
(***************************************************************************)
\* 0.0001: the unit of coordinates (degrees) and of cosines
Unit4 == 10 ^ 4

\* x * y / scale, rounded toward zero whatever the signs (as a float product
\* is: the magnitude does not depend on the signs)
MulDiv(x, y, scale) ==
    LET m == (Abs(x) * Abs(y)) \div scale
    IN  IF (x < 0) = (y < 0) THEN m ELSE -m

\* Math.sqrt on naturals, rounded down (roots below 40960, whose squares fit)
RECURSIVE SqrtBits(_, _, _)
SqrtBits(v, r, bit) ==
    IF bit = 0 THEN r
    ELSE IF r + bit < 2 ^ 15 + 2 ^ 13 /\ (r + bit) * (r + bit) <= v
         THEN SqrtBits(v, r + bit, bit \div 2)
         ELSE SqrtBits(v, r, bit \div 2)

Sqrt(v) == SqrtBits(v, 0, 2 ^ 15)

\* (deg * Math.PI / 180) / 2 for a difference of coordinates, in 1e-7 rad
HalfAngle(dDeg) == MulDiv(dDeg, 87266, Unit4)

\* Math.sin of a half angle: below 0.0033 rad the cubic term x^3/6 is less
\* than one unit (1e-7), so the sine is the angle
Sin(x) == x

\* Math.cos(deg * Math.PI / 180) for a latitude, in units of 0.0001: the
\* Taylor polynomial to the 8th power, the angle in units of 0.0001 rad
Cos(deg) ==
    LET x  == MulDiv(deg \div 10, 17453, 10 ^ 5)
        x2 == MulDiv(x, x, Unit4)
        x4 == MulDiv(x2, x2, Unit4)
        x6 == MulDiv(x4, x2, Unit4)
        x8 == MulDiv(x6 \div 10, x2, 10 ^ 3)
    IN  Unit4 - (x2 \div 2) + (x4 \div 24) - (x6 \div 720) + (x8 \div 40320)

\* const R = 6371
EarthRadiusKm == 6371

\* calculateDistance with the cosine of the first latitude taken twice
calculateDistanceOneCos(lat1, lon1, lat2, lon2) ==
    IF \E v \in {lat1, lon1, lat2, lon2} : v.k # "finite"
    THEN NaN
    ELSE LET sLat == Sin(HalfAngle(lat2.n - lat1.n))
             sLon == Sin(HalfAngle(lon2.n - lon1.n))
             cc   == MulDiv(Cos(lat1.n), Cos(lat1.n), Unit4)
             a    == (sLat * sLat) + MulDiv(cc, sLon, Unit4) * sLon
             c    == 2 * Sqrt(a)
         IN  Num(MulDiv(EarthRadiusKm, c, Unit4))

\* Calculate distance between two coordinates in kilometers (haversine).
\* Any NaN or infinite argument makes the result NaN: Infinity - x is
\* infinite, Math.sin and Math.cos of an infinity are NaN, and NaN spreads.
\* For finite arguments sqrt(1-a) is 1 and atan2(s, 1) is s to within one
\* unit at the distances covered, so c = 2 * sqrt(a).
calculateDistance(lat1, lon1, lat2, lon2) ==
    IF \E v \in {lat1, lon1, lat2, lon2} : v.k # "finite"
    THEN NaN
    ELSE LET sLat == Sin(HalfAngle(lat2.n - lat1.n))
             sLon == Sin(HalfAngle(lon2.n - lon1.n))
             cc   == MulDiv(Cos(lat1.n), Cos(lat2.n), Unit4)
             a    == (sLat * sLat) + MulDiv(cc, sLon, Unit4) * sLon
             c    == 2 * Sqrt(a)
         IN  Num(MulDiv(EarthRadiusKm, c, Unit4))

\* distance <= radiusKm on JavaScript numbers (false when either is NaN)
LessEq(x, y) ==
    CASE x.k = "NaN" \/ y.k = "NaN" -> FALSE
      [] ~TypeofNumber(x) \/ ~TypeofNumber(y) -> FALSE
      [] x.k = "-Infinity" \/ y.k = "Infinity" -> TRUE
      [] x.k = "Infinity" \/ y.k = "-Infinity" -> FALSE
      [] OTHER -> x.n <= y.n

(***************************************************************************)
(* GeoJSON data                                                            *)
(*   geometry   [type, coordinates]; NullGeometry is a missing geometry    *)
(*   feature    [id, properties, geometry]; id stands for the feature's    *)
(*              identity, properties holds the keys a marker is titled by  *)
(*   dataset    [type, features]; NullDataset is a missing payload         *)
(***************************************************************************)
Position(lon, lat) == Arr(<<lon, lat>>)

NullGeometry == [type |-> "null", coordinates |-> Undefined]

Geometry(type, coordinates) == [type |-> type, coordinates |-> coordinates]

\* properties with none of the keys a marker is titled and described by,
\* and none of those the alert of a pressed feature is chosen by
NoProperties ==
    [BR_NAME |-> Undefined, name |-> Undefined, ROAD_NAME |-> Undefined,
     description |-> Undefined, KM_POST |-> Undefined, SITE_NAME |-> Undefined]

\* the feature with one more property
WithProperty(feature, key, value) == [feature EXCEPT !.properties[key] = value]

Feature(id, geometry) == [id |-> id, properties |-> NoProperties, geometry |-> geometry]

FeatureCollection(features) == [type |-> "FeatureCollection", features |-> features]

NullDataset == [type |-> "null", features |-> <<>>]

\* a payload that is an object without a features array
NoFeaturesDataset == [type |-> "NoFeatures", features |-> <<>>]

\* { type: 'FeatureCollection', features: [] }
EmptyCollection == FeatureCollection(<<>>)

\* !dataset || !dataset.features || !Array.isArray(dataset.features)
InvalidDataset(dataset) == dataset.type # "FeatureCollection"

(***************************************************************************)
(* filterNearbyFeatures                                                    *)
(***************************************************************************)
\* The representative coordinate of a feature as the filter callback
\* extracts it: [ok, lat, lon], ok = FALSE where the callback returns false
\* before measuring.
NoPoint == [ok |-> FALSE, lat |-> Undefined, lon |-> Undefined]

\* RepresentativePoint with the last vertex of a line (the last line of a
\* MultiLineString) in place of the first
RepresentativeLast(feature) ==
    LET g == feature.geometry
        c == g.coordinates
        n == Length(c)
    IN  CASE g.type = "Point" ->
               IF ~IsArray(c) \/ Length(c) < 2 THEN NoPoint
               ELSE [ok |-> TRUE, lat |-> Index(c, 1), lon |-> Index(c, 0)]
          [] g.type = "LineString" ->
               IF ~IsArray(c) \/ Length(c) = 0 THEN NoPoint
               ELSE IF ~IsArray(Index(c, n - 1)) \/ Length(Index(c, n - 1)) < 2
                    THEN NoPoint
               ELSE [ok |-> TRUE, lat |-> Index(Index(c, n - 1), 1),
                     lon |-> Index(Index(c, n - 1), 0)]
          [] g.type = "MultiLineString" ->
               IF ~IsArray(c) \/ Length(c) = 0 THEN NoPoint
               ELSE IF ~IsArray(Index(c, n - 1)) \/ Length(Index(c, n - 1)) = 0
                    THEN NoPoint
               ELSE IF ~IsArray(Index(Index(c, n - 1), 0))
                       \/ Length(Index(Index(c, n - 1), 0)) < 2
                    THEN NoPoint
               ELSE [ok |-> TRUE, lat |-> Index(Index(Index(c, n - 1), 0), 1),
                     lon |-> Index(Index(Index(c, n - 1), 0), 0)]
          [] OTHER -> NoPoint

RepresentativePoint(feature) ==
    LET g == feature.geometry
        c == g.coordinates
    IN  CASE g.type = "Point" ->
               IF ~IsArray(c) \/ Length(c) < 2 THEN NoPoint
               ELSE [ok |-> TRUE, lat |-> Index(c, 1), lon |-> Index(c, 0)]
          [] g.type = "LineString" ->
               IF ~IsArray(c) \/ Length(c) = 0 THEN NoPoint
               ELSE IF ~IsArray(Index(c, 0)) \/ Length(Index(c, 0)) < 2
                    THEN NoPoint
               \* Use first coordinate of line
               ELSE [ok |-> TRUE, lat |-> Index(Index(c, 0), 1),
                     lon |-> Index(Index(c, 0), 0)]
          [] g.type = "MultiLineString" ->
               IF ~IsArray(c) \/ Length(c) = 0 THEN NoPoint
               ELSE IF ~IsArray(Index(c, 0)) \/ Length(Index(c, 0)) = 0
                    THEN NoPoint
               ELSE IF ~IsArray(Index(Index(c, 0), 0))
                       \/ Length(Index(Index(c, 0), 0)) < 2
                    THEN NoPoint
               \* Use first coordinate of first line
               ELSE [ok |-> TRUE, lat |-> Index(Index(Index(c, 0), 0), 1),
                     lon |-> Index(Index(Index(c, 0), 0), 0)]
          \* every other type, Polygon included: return false
          [] OTHER -> NoPoint

\* The callback of dataset.features.filter: TRUE iff the feature is kept.
\* FeatureKept with distance < radiusKm in place of <=
FeatureKeptStrict(feature, userLat, userLon, radiusKm) ==
    IF feature.geometry = NullGeometry \/ Falsy(feature.geometry.coordinates)
    THEN FALSE
    ELSE LET p == RepresentativePoint(feature)
         IN  /\ p.ok
             /\ TypeofNumber(p.lat) /\ TypeofNumber(p.lon)
             /\ ~IsNaN(p.lat) /\ ~IsNaN(p.lon)
             /\ LET d == calculateDistance(userLat, userLon, p.lat, p.lon)
                IN  LessEq(d, radiusKm) /\ d # radiusKm

FeatureKept(feature, userLat, userLon, radiusKm) ==
    IF feature.geometry = NullGeometry \/ Falsy(feature.geometry.coordinates)
    THEN FALSE
    ELSE LET p == RepresentativePoint(feature)
         IN  /\ p.ok
             \* Validate coordinates are numbers
             /\ TypeofNumber(p.lat) /\ TypeofNumber(p.lon)
             /\ ~IsNaN(p.lat) /\ ~IsNaN(p.lon)
             /\ LessEq(calculateDistance(userLat, userLon, p.lat, p.lon), radiusKm)

\* filterNearbyFeatures leaving out of its result the datasets that are not
\* FeatureCollections
filterNearbyFeaturesCompacting(data, userLat, userLon, radiusKm) ==
    LET valid == SelectSeq(data, LAMBDA d : ~InvalidDataset(d))
    IN  [i \in 1..Len(valid) |->
            [valid[i] EXCEPT !.features =
                SelectSeq(@, LAMBDA f : FeatureKept(f, userLat, userLon, radiusKm))]]

\* filterNearbyFeatures giving up on a collection at the first feature it
\* cannot take a coordinate from
filterNearbyFeaturesAborting(data, userLat, userLon, radiusKm) ==
    [i \in 1..Len(data) |->
        IF InvalidDataset(data[i])
        THEN EmptyCollection
        ELSE IF \E k \in 1..Len(data[i].features) :
                   ~RepresentativePoint(data[i].features[k]).ok
        THEN [data[i] EXCEPT !.features = <<>>]
        ELSE [data[i] EXCEPT !.features =
                 SelectSeq(@, LAMBDA f : FeatureKept(f, userLat, userLon, radiusKm))]]

\* Filter features within radiusKm of the user location; data is an array
\* (the callers pass allGeoJsonData, which is always one).
filterNearbyFeatures(data, userLat, userLon, radiusKm) ==
    [i \in 1..Len(data) |->
        IF InvalidDataset(data[i])
        THEN EmptyCollection
        ELSE [data[i] EXCEPT !.features =
                 SelectSeq(@, LAMBDA f : FeatureKept(f, userLat, userLon, radiusKm))]]

(***************************************************************************)
(* GeoJSONLayer: the map primitives of one collection                      *)
(***************************************************************************)
\* x || y
Or(x, y) == IF Falsy(x) THEN y ELSE x

\* 'Infrastructure' and 'DPWH Infrastructure', by their lengths
InfrastructureTitle == Str(14)

InfrastructureDescription == Str(19)

\* strokeColor = '#2196F3'
DefaultStrokeColor == "#2196F3"

\* strokeWidth = 2
DefaultStrokeWidth == 2

\* coord && Array.isArray(coord) && coord.length >= 2
ValidVertex(coord) == IsArray(coord) /\ Length(coord) >= 2

\* { latitude: coord[1], longitude: coord[0] }
LatLng(coord) == [latitude |-> Index(coord, 1), longitude |-> Index(coord, 0)]

\* Convert coordinates to the format react-native-maps expects:
\* .filter(valid vertex).map(to latitude and longitude)
Coordinates(line) ==
    LET kept == SelectSeq(line.a, ValidVertex)
    IN  [i \in 1..Len(kept) |-> LatLng(kept[i])]

\* the key of an element: `line-${index}`, `multiline-${index}-${lineIndex}`,
\* `point-${index}`, `polygon-${index}` (lineIndex is -1 where there is none)
Key(prefix, index, lineIndex) == [prefix |-> prefix, index |-> index, lineIndex |-> lineIndex]

\* <Polyline coordinates strokeColor strokeWidth fillColor onPress />;
\* feature is the one its onPress hands to onFeaturePress
Polyline(key, coordinates, strokeColor, strokeWidth, fillColor, feature) ==
    [element |-> "Polyline", key |-> key, coordinates |-> coordinates,
     strokeColor |-> strokeColor, strokeWidth |-> strokeWidth, fillColor |-> fillColor,
     title |-> Undefined, description |-> Undefined, feature |-> feature]

\* <Marker coordinate title description onPress />
Marker(key, coordinate, title, description, feature) ==
    [element |-> "Marker", key |-> key, coordinates |-> <<coordinate>>,
     strokeColor |-> "", strokeWidth |-> 0, fillColor |-> "",
     title |-> title, description |-> description, feature |-> feature]

RECURSIVE Flatten(_)
Flatten(seqs) == IF Len(seqs) = 0 THEN <<>> ELSE seqs[1] \o Flatten(Tail(seqs))

\* lineCoords.filter(...) throws a TypeError when a line of a
\* MultiLineString is not an array; nothing in the component catches it
FeatureThrows(feature) ==
    /\ feature.geometry.type = "MultiLineString"
    /\ IsArray(feature.geometry.coordinates)
    /\ \E j \in 1..Length(feature.geometry.coordinates) :
          ~IsArray(feature.geometry.coordinates.a[j])

\* MultiLineElements drawing one polyline through the vertices of all lines
MultiLineElementsMerged(feature, index, strokeColor, strokeWidth) ==
    LET c == feature.geometry.coordinates
    IN  IF Falsy(c) \/ ~IsArray(c) THEN <<>>
        ELSE LET all == Flatten([j \in 1..Length(c) |-> Coordinates(c.a[j])])
             IN  IF Len(all) = 0 THEN <<>>
                 ELSE <<Polyline(Key("multiline", index, 0), all, strokeColor,
                                 strokeWidth, "", feature)>>

\* the elements of a MultiLineString: a fragment of one Polyline per line
\* that has a valid vertex
MultiLineElements(feature, index, strokeColor, strokeWidth) ==
    LET c == feature.geometry.coordinates
    IN  IF Falsy(c) \/ ~IsArray(c) THEN <<>>
        ELSE Flatten([j \in 1..Length(c) |->
                 LET coordinates == Coordinates(c.a[j])
                 IN  IF Len(coordinates) = 0 THEN <<>>
                     ELSE <<Polyline(Key("multiline", index, j - 1), coordinates,
                                     strokeColor, strokeWidth, "", feature)>>])

\* LineElements mapping every entry of coordinates, valid or not
LineElementsUnfiltered(feature, index, strokeColor, strokeWidth) ==
    LET c == feature.geometry.coordinates
    IN  IF Falsy(c) \/ ~IsArray(c) THEN <<>>
        ELSE LET coordinates == [i \in 1..Length(c) |-> LatLng(c.a[i])]
             IN  IF Len(coordinates) = 0 THEN <<>>
                 ELSE <<Polyline(Key("line", index, -1), coordinates, strokeColor,
                                 strokeWidth, "", feature)>>

\* the elements of a LineString
LineElements(feature, index, strokeColor, strokeWidth) ==
    LET c == feature.geometry.coordinates
    IN  IF Falsy(c) \/ ~IsArray(c) THEN <<>>
        ELSE LET coordinates == Coordinates(c)
             \* Skip if no valid coordinates
             IN  IF Len(coordinates) = 0 THEN <<>>
                 ELSE <<Polyline(Key("line", index, -1), coordinates, strokeColor,
                                 strokeWidth, "", feature)>>

\* MarkerTitle with the name looked up before BR_NAME
MarkerTitleNameFirst(properties) ==
    Or(Or(properties.name, properties.BR_NAME), InfrastructureTitle)

\* feature.properties.BR_NAME || feature.properties.name || 'Infrastructure'
MarkerTitle(properties) ==
    Or(Or(properties.BR_NAME, properties.name), InfrastructureTitle)

\* feature.properties.ROAD_NAME || feature.properties.description
\*    || 'DPWH Infrastructure'
MarkerDescription(properties) ==
    Or(Or(properties.ROAD_NAME, properties.description), InfrastructureDescription)

\* the elements of a Point
PointElements(feature, index) ==
    LET coord == feature.geometry.coordinates
    IN  IF Falsy(coord) \/ ~IsArray(coord) \/ Length(coord) < 2 THEN <<>>
        ELSE <<Marker(Key("point", index, -1), LatLng(coord),
                      MarkerTitle(feature.properties),
                      MarkerDescription(feature.properties), feature)>>

\* PolygonElements drawing the outline through the vertices of every ring
PolygonElementsAllRings(feature, index, strokeColor, strokeWidth) ==
    LET c == feature.geometry.coordinates
    IN  IF Falsy(c) \/ ~IsArray(c) \/ Falsy(Index(c, 0)) \/ ~IsArray(Index(c, 0))
        THEN <<>>
        ELSE LET coordinates ==
                    Flatten([j \in 1..Length(c) |->
                                IF IsArray(c.a[j]) THEN Coordinates(c.a[j]) ELSE <<>>])
             IN  IF Len(coordinates) = 0 THEN <<>>
                 ELSE <<Polyline(Key("polygon", index, -1), coordinates, strokeColor,
                                 strokeWidth, strokeColor \o "20", feature)>>

\* the elements of a Polygon: for polygons, we'll just show the outline
PolygonElements(feature, index, strokeColor, strokeWidth) ==
    LET c == feature.geometry.coordinates
    IN  IF Falsy(c) \/ ~IsArray(c) \/ Falsy(Index(c, 0)) \/ ~IsArray(Index(c, 0))
        THEN <<>>
        ELSE LET coordinates == Coordinates(Index(c, 0))
             \* Skip if no valid coordinates
             IN  IF Len(coordinates) = 0 THEN <<>>
                 \* fillColor: strokeColor + '20' (add transparency)
                 ELSE <<Polyline(Key("polygon", index, -1), coordinates, strokeColor,
                                 strokeWidth, strokeColor \o "20", feature)>>

\* what data.features.map returns for one feature (null is no element)
FeatureElements(feature, index, strokeColor, strokeWidth) ==
    CASE feature.geometry = NullGeometry -> <<>>
      [] feature.geometry.type = "LineString" ->
           LineElements(feature, index, strokeColor, strokeWidth)
      [] feature.geometry.type = "MultiLineString" ->
           MultiLineElements(feature, index, strokeColor, strokeWidth)
      [] feature.geometry.type = "Point" -> PointElements(feature, index)
      [] feature.geometry.type = "Polygon" ->
           PolygonElements(feature, index, strokeColor, strokeWidth)
      [] OTHER -> <<>>

\* One render of the component: threw is TRUE when the render ends in a
\* TypeError, elements are the map primitives in document order otherwise.
GeoJSONLayer(data, strokeColor, strokeWidth) ==
    IF InvalidDataset(data)
    THEN [threw |-> FALSE, elements |-> <<>>]
    ELSE IF \E k \in 1..Len(data.features) : FeatureThrows(data.features[k])
    THEN [threw |-> TRUE, elements |-> <<>>]
    ELSE [threw |-> FALSE,
          elements |-> Flatten([k \in 1..Len(data.features) |->
                          FeatureElements(data.features[k], k - 1, strokeColor,
                                          strokeWidth)])]

(***************************************************************************)
(* Bounded inputs                                                          *)
(***************************************************************************)
\* how many times the infrastructure type is switched after mounting
MaxSwitches == 1

\* how many of RefPoints below the reference inputs are drawn from
MaxRefs == 3

Manila == [lat |-> Num(145995), lon |-> Num(1209842)]

\* about 0.76 km from Manila
NearPt == [lat |-> Num(146050), lon |-> Num(1209800)]

\* about 16.7 km from Manila
FarPt == [lat |-> Num(147000), lon |-> Num(1211000)]

\* about 9.1 km from Manila and 9.5 km from FarPt
MidPt == [lat |-> Num(146600), lon |-> Num(1210400)]

Pos(p) == Position(p.lon, p.lat)

PointAt(id, p) == Feature(id, Geometry("Point", Pos(p)))

LineAt(id, ps) ==
    Feature(id, Geometry("LineString", Arr([i \in 1..Len(ps) |-> Pos(ps[i])])))

MultiLineAt(id, lines) ==
    Feature(id, Geometry("MultiLineString",
        Arr([j \in 1..Len(lines) |->
                Arr([i \in 1..Len(lines[j]) |-> Pos(lines[j][i])])])))

PolygonAt(id, rings) ==
    Feature(id, Geometry("Polygon",
        Arr([j \in 1..Len(rings) |->
                Arr([i \in 1..Len(rings[j]) |-> Pos(rings[j][i])])])))

BridgeNear == WithProperty(PointAt(1, NearPt), "BR_NAME", Str(9))

BridgeFar == WithProperty(PointAt(2, FarPt), "BR_NAME", Str(7))

RoadFromFar == LineAt(3, <<FarPt, NearPt>>)

RoadFromNear == LineAt(4, <<NearPt, FarPt>>)

RouteFromNear == WithProperty(MultiLineAt(5, <<<<NearPt, MidPt>>, <<FarPt>>>>), "SITE_NAME", Str(6))

RouteFromFar == MultiLineAt(6, <<<<FarPt>>, <<NearPt, Manila>>>>)

AreaNear == PolygonAt(7, <<<<NearPt, Manila, MidPt, NearPt>>>>)

PostNear == WithProperty(PointAt(8, Manila), "KM_POST", Str(4))

\* Features the engine cannot place: no geometry, no coordinates, a type it
\* does not know, no vertex, a first line without a vertex, a coordinate
\* that is a text, one that is NaN, and one that is a single number.
NoGeometry == Feature(21, NullGeometry)

NoCoordinates == Feature(22, Geometry("Point", Undefined))

UnknownType == Feature(23, Geometry("GeometryCollection", Arr(<<Pos(NearPt)>>)))

EmptyLine == Feature(24, Geometry("LineString", Arr(<<>>)))

EmptyFirstLine ==
    Feature(25, Geometry("MultiLineString", Arr(<<Arr(<<>>), Arr(<<Pos(NearPt)>>)>>)))

TextPoint == Feature(26, Geometry("Point", Arr(<<Str(8), NearPt.lat>>)))

NaNPoint == Feature(27, Geometry("Point", Arr(<<NearPt.lon, NaN>>)))

ShortPoint == Feature(28, Geometry("Point", Arr(<<NearPt.lon>>)))

\* a route whose first line is whole and whose second has no vertex
RouteWithEmptyLine ==
    Feature(29, Geometry("MultiLineString", Arr(<<Arr(<<Pos(NearPt), Pos(MidPt)>>), Arr(<<>>)>>)))

\* how many features the collections given to GeoJSONLayer hold at most
MaxLayerFeatures == 2

Titled(f, brName, name) ==
    [f EXCEPT !.properties = [NoProperties EXCEPT !.BR_NAME = brName, !.name = name]]

\* points with a name, with BR_NAME and a name, with BR_NAME, with name ''
NamedPost == Titled(PointAt(41, NearPt), Undefined, Str(5))

NamedBridge == Titled(PointAt(42, FarPt), Str(12), Str(5))

BridgeOnly == Titled(PointAt(43, MidPt), Str(11), Undefined)

EmptyNamed == Titled(PointAt(44, Manila), Undefined, Str(0))

\* a vertex of one number, and one of three
BadVertex == Arr(<<NearPt.lon>>)

HighVertex == Arr(<<MidPt.lon, MidPt.lat, Num(12)>>)

LineMixed ==
    Feature(45, Geometry("LineString",
        Arr(<<Pos(NearPt), BadVertex, Undefined, Pos(FarPt), Arr(<<>>), HighVertex>>)))

LineAllBad == Feature(46, Geometry("LineString", Arr(<<BadVertex, Undefined, Arr(<<>>)>>)))

RouteWithBadLine ==
    Feature(47, Geometry("MultiLineString",
        Arr(<<Arr(<<Pos(FarPt)>>), Arr(<<BadVertex>>),
              Arr(<<Pos(NearPt), BadVertex, Pos(MidPt)>>)>>)))

\* a route one of whose lines is null
RouteWithNullLine ==
    Feature(48, Geometry("MultiLineString", Arr(<<Arr(<<Pos(NearPt)>>), Undefined>>)))

AreaWithHole ==
    PolygonAt(49, <<<<NearPt, FarPt, MidPt, NearPt>>, <<Manila, Manila>>>>)

AreaBadRing ==
    Feature(50, Geometry("Polygon",
        Arr(<<Arr(<<BadVertex, Pos(NearPt), Pos(MidPt)>>), Arr(<<Pos(Manila)>>)>>)))

AreaEmptyRing ==
    Feature(51, Geometry("Polygon", Arr(<<Arr(<<>>), Arr(<<Pos(FarPt), Pos(Manila)>>)>>)))

LayerFeatures ==
    { BridgeNear, NamedPost, NamedBridge, BridgeOnly, EmptyNamed, ShortPoint,
      RoadFromNear, LineMixed, LineAllBad, EmptyLine,
      RouteWithEmptyLine, RouteWithBadLine, RouteWithNullLine, RouteFromFar,
      AreaWithHole, AreaBadRing, AreaEmptyRing, NoGeometry, UnknownType }

\* The coordinates a map-centre event can deliver.
RefPoints ==
    <<Manila, [lat |-> PosInfinity, lon |-> Num(1209842)],
      [lat |-> Num(145995), lon |-> NaN], FarPt, MidPt,
      [lat |-> NegInfinity, lon |-> NegInfinity],
      [lat |-> Undefined, lon |-> Num(1209842)]>>

RefInputs ==
    {RefPoints[i] : i \in 1..(IF MaxRefs < Len(RefPoints) THEN MaxRefs ELSE Len(RefPoints))}

\* Where the device can be found.
Fixes == {FarPt}

(***************************************************************************)
(* The map screen                                                          *)
(***************************************************************************)
VARIABLES
    screen,              \* which version of MapScreen is mounted
    configured,          \* supabase: both environment variables are set
    mounted,             \* the mount effects have run
    location,            \* useState: Location.LocationObject | null
    region,              \* useState: Region
    loading,             \* useState: boolean
    geoJsonData,         \* useState: the nearby view (what the map draws)
    allGeoJsonData,      \* useState: the complete dataset
    infrastructureType,  \* useState (supabase): the type selected
    locating,            \* the getCurrentLocation call started on mount
    loads,               \* the loadGeoJSONData calls in flight, with what
                         \* each closed over when it was called
    switches,            \* how many type switches have happened
    lastOp,              \* the handler that ran last, and its input
    call,                \* a call of filterNearbyFeatures: its arguments
    returned,            \* whether that call has returned
    result,              \* what it returned
    measure,             \* two coordinates given to calculateDistance
    distances,           \* what calculateDistance returned for them
    layer,               \* GeoJSONLayer: the data prop of one render
    rendered,            \* whether that render has finished
    primitives,          \* the map primitives it returned, in order
    view,                \* the nearby view given to one render of the map
    painted,             \* whether that render has finished
    strokes,             \* the layers it drew, one per collection
    photo,               \* CameraScreen useState: string | null
    showCamera,          \* useState: boolean
    selectedIssueType,   \* useState: string
    description,         \* useState: string, here its characters
    isSubmitting,        \* useState: boolean
    alert,               \* the alert on the screen, "none" when there is none
    pending,             \* the submitReport calls waiting in their try block
    cameraOp,            \* the handler of CameraScreen that ran last
    reports,             \* the rows of public.reports: their two text arrays
    reportOp,            \* the last statement on reports, and its values
    projectsTable,       \* the rows of public.projects
    centroids,           \* the rows of the materialized view projects_centroids
    dbOp,                \* the last statement on projects or on the view
    query,               \* the arguments of one call of nearby_projects
    found                \* what that call returned

filterVars == <<call, returned, result>>

distanceVars == <<measure, distances>>

layerVars == <<layer, rendered, primitives>>

\* the variables of the calls run on their own, which no handler of the
\* map screen touches
paletteVars == <<view, painted, strokes>>

\* the variables of the state machines beside the map screen's
cameraVars ==
    <<photo, showCamera, selectedIssueType, description, isSubmitting, alert, pending,
      cameraOp>>

reportVars == <<reports, reportOp>>

centroidVars == <<projectsTable, centroids, dbOp>>

nearbyVars == <<query, found>>

moreVars == <<paletteVars, cameraVars, reportVars, centroidVars, nearbyVars>>

pureVars == <<filterVars, distanceVars, layerVars, moreVars>>

mapVars ==
    <<screen, configured, mounted, location, region, loading, geoJsonData,
      allGeoJsonData, infrastructureType, locating, loads, switches, lastOp>>

NullLocation == [known |-> FALSE, latitude |-> Undefined, longitude |-> Undefined]

LocationObject(p) == [known |-> TRUE, latitude |-> p.lat, longitude |-> p.lon]

Region(lat, lon, dLat, dLon) ==
    [latitude |-> lat, longitude |-> lon, latitudeDelta |-> dLat, longitudeDelta |-> dLon]

\* Center of Philippines, a view wide enough to see all of it
InitialRegion == Region(Num(128797), Num(1217740), 80000, 80000)

\* the region both getCurrentLocation and centerOnLocation set
RegionAround(loc) == Region(loc.latitude, loc.longitude, 922, 421)

\* const nearbyData = filterNearbyFeatures(allGeoJsonData, userLat, userLon, 10)
NearbyRadiusKm == 10

Km(n) == Num(n * 10 ^ 3)

\* the ids of the features of a view, collection by collection
RECURSIVE FlatIds(_)
FlatIds(data) ==
    IF Len(data) = 0 THEN <<>>
    ELSE [k \in 1..Len(data[1].features) |-> data[1].features[k].id]
         \o FlatIds(Tail(data))

\* what lastOp records: the handler, its coordinate, the raw dataset it was
\* given, the features the complete view held when it began, and the raw
\* dataset of the last load that succeeded
Op(name, lat, lon, raw) ==
    [op |-> name, lat |-> lat, lon |-> lon, raw |-> raw,
     before |-> FlatIds(allGeoJsonData),
     loaded |-> IF name = "loadOk" THEN raw ELSE lastOp.loaded]

NoArg == Undefined

(***************************************************************************)
(* Raw datasets                                                            *)
(***************************************************************************)
\* A row of public.projects as the query returns it.  geom is null, an
\* object, or a text that JSON.parse accepts (parses) or rejects.
Row(id, kind, parses, geometry) ==
    [project_id |-> id, kind |-> kind, parses |-> parses, geometry |-> geometry]

ObjectRow(f) == Row(f.id, "object", TRUE, f.geometry)

TextRow(f) == Row(f.id, "string", TRUE, f.geometry)

BadTextRow(id) == Row(id, "string", FALSE, NullGeometry)

NoGeomRow(id) == Row(id, "null", FALSE, NullGeometry)

\* What the projects table holds for each project type the screen asks for.
ProjectsOfType(projectType) ==
    CASE projectType = "bridge" ->
           <<ObjectRow(BridgeNear), BadTextRow(11), ObjectRow(BridgeFar), ObjectRow(AreaNear)>>
      [] projectType = "road" ->
           <<TextRow(RoadFromFar), NoGeomRow(12), ObjectRow(RoadFromNear), TextRow(RouteFromNear)>>
      [] OTHER ->
           <<ObjectRow(PostNear), ObjectRow(RouteFromFar), ObjectRow(EmptyLine),
             TextRow(NaNPoint)>>

\* The six bundled layers, in the order of the datasets array; a layer whose
\* module exports nothing is NullDataset.
StaticBundles ==
    { <<FeatureCollection(<<RoadFromFar, RoadFromNear>>),
        FeatureCollection(<<RouteFromNear>>),
        NullDataset,
        FeatureCollection(<<RouteFromFar>>),
        FeatureCollection(<<BridgeNear, BridgeFar, AreaNear>>),
        FeatureCollection(<<PostNear>>)>>,
      <<FeatureCollection(<<RoadFromNear>>),
        FeatureCollection(<<RouteWithEmptyLine>>),
        NoFeaturesDataset,
        FeatureCollection(<<>>),
        FeatureCollection(<<BridgeFar>>),
        NullDataset>> }

(***************************************************************************)
(* loadGeoJSONData, supabase: rows to features                             *)
(***************************************************************************)
\* Map infrastructure type to project type
ProjectType(type) ==
    IF type = "bridges" THEN "bridge"
    ELSE IF type = "highways" THEN "road"
    ELSE "other"

InfrastructureTypes == {"bridges", "highways", "kilometer-posts"}

\* .filter(project => project.geom).map(parse or null).filter(f => f !== null)
RowDecodes(row) ==
    /\ row.kind # "null"
    /\ row.kind = "string" => row.parses

\* the rows before the first one whose text does not parse
RECURSIVE UntilUndecodable(_)
UntilUndecodable(projects) ==
    IF Len(projects) = 0 THEN <<>>
    ELSE IF projects[1].kind = "string" /\ ~projects[1].parses THEN <<>>
    ELSE <<projects[1]>> \o UntilUndecodable(Tail(projects))

\* GeoJsonFeatures giving up at the first text that does not parse
GeoJsonFeaturesUntilUndecodable(projects) ==
    LET kept == SelectSeq(UntilUndecodable(projects), RowDecodes)
    IN  [i \in 1..Len(kept) |-> Feature(kept[i].project_id, kept[i].geometry)]

GeoJsonFeatures(projects) ==
    LET kept == SelectSeq(projects, RowDecodes)
    IN  [i \in 1..Len(kept) |-> Feature(kept[i].project_id, kept[i].geometry)]

\* const geoJsonData = [{ type: 'FeatureCollection', features: geoJsonFeatures }]
SupabaseDataset(projects) == <<FeatureCollection(GeoJsonFeatures(projects))>>

(***************************************************************************)
(* loadGeoJSONData, static: validate the six layers                        *)
(***************************************************************************)
\* ValidatedData leaving out the layers that are not FeatureCollections
ValidatedDataCompacting(datasets) == SelectSeq(datasets, LAMBDA d : ~InvalidDataset(d))

ValidatedData(datasets) ==
    [i \in 1..Len(datasets) |->
        IF InvalidDataset(datasets[i]) THEN EmptyCollection ELSE datasets[i]]

(***************************************************************************)
(* updateNearbyFeatures                                                    *)
(***************************************************************************)
\* The value of geoJsonData after updateNearbyFeatures(userLat, userLon) run
\* by a closure that sees `all` as allGeoJsonData; `geo` is the current value.
\* filterNearbyFeatures catches what its callback throws, so the catch
\* branch of updateNearbyFeatures has nothing to catch.
\* updateNearbyFeatures filtering the current nearby view in place of the
\* complete one
updateNearbyFeaturesIncremental(all, geo, userLat, userLon) ==
    IF Len(all) = 0 THEN geo
    ELSE IF ~TypeofNumber(userLat) \/ ~TypeofNumber(userLon)
            \/ IsNaN(userLat) \/ IsNaN(userLon)
         THEN geo
    ELSE filterNearbyFeatures(geo, userLat, userLon, Km(NearbyRadiusKm))

updateNearbyFeatures(all, geo, userLat, userLon) ==
    IF Len(all) = 0 THEN geo
    ELSE IF ~TypeofNumber(userLat) \/ ~TypeofNumber(userLon)
            \/ IsNaN(userLat) \/ IsNaN(userLon)
         THEN geo
    ELSE filterNearbyFeatures(all, userLat, userLon, Km(NearbyRadiusKm))

(***************************************************************************)
(* The handlers of the map screen.  A handler created by a render closes   *)
(* over that render's state: the two calls started by the mount effects    *)
(* (and a load started by a type switch) keep the values they were called  *)
(* with, while the map's and the button's handlers are those of the latest *)
(* render and see the current state.                                       *)
(***************************************************************************)
Closure == [type |-> infrastructureType, location |-> location, all |-> allGeoJsonData]

Remove(seq, i) == [j \in 1..(Len(seq) - 1) |-> IF j < i THEN seq[j] ELSE seq[j + 1]]

NotLocating == [pc |-> "done", all |-> <<>>]

\* useState initial values
MapInit ==
    /\ screen \in {"supabase", "static"}
    /\ configured \in IF screen = "supabase" THEN BOOLEAN ELSE {TRUE}
    /\ mounted = FALSE
    /\ location = NullLocation
    /\ region = InitialRegion
    /\ loading = TRUE
    /\ geoJsonData = <<>>
    /\ allGeoJsonData = <<>>
    /\ infrastructureType = "bridges"
    /\ locating = NotLocating
    /\ loads = <<>>
    /\ switches = 0
    /\ lastOp = [op |-> "init", lat |-> NoArg, lon |-> NoArg, raw |-> <<>>,
                 before |-> <<>>, loaded |-> <<>>]

\* The effects of the first render: getCurrentLocation() and
\* loadGeoJSONData(), and on the supabase screen the effect on
\* [infrastructureType], which loads once more.  A supabase load whose
\* environment variables are missing ends at once, emptying both views.
Mount ==
    /\ ~mounted
    /\ mounted' = TRUE
    /\ locating' = [pc |-> "permission", all |-> allGeoJsonData]
    /\ IF screen = "static"
       THEN /\ loads' = <<Closure>>
            /\ UNCHANGED <<geoJsonData, allGeoJsonData>>
       ELSE IF configured
       THEN /\ loads' = <<Closure, Closure>>
            /\ UNCHANGED <<geoJsonData, allGeoJsonData>>
       ELSE /\ loads' = <<>>
            /\ allGeoJsonData' = <<>>
            /\ geoJsonData' = <<>>
    /\ lastOp' = Op("mount", NoArg, NoArg, <<>>)
    /\ UNCHANGED <<pureVars, screen, configured, location, region, loading,
                   infrastructureType, switches>>

\* getCurrentLocation: status !== 'granted'
PermissionDenied ==
    /\ locating.pc = "permission"
    /\ locating' = NotLocating
    /\ loading' = FALSE
    /\ lastOp' = Op("permissionDenied", NoArg, NoArg, <<>>)
    /\ UNCHANGED <<pureVars, screen, configured, mounted, location, region, geoJsonData,
                   allGeoJsonData, infrastructureType, loads, switches>>

PermissionGranted ==
    /\ locating.pc = "permission"
    /\ locating' = [locating EXCEPT !.pc = "position"]
    /\ lastOp' = Op("permissionGranted", NoArg, NoArg, <<>>)
    /\ UNCHANGED <<pureVars, screen, configured, mounted, location, region, loading,
                   geoJsonData, allGeoJsonData, infrastructureType, loads, switches>>

\* getCurrentLocation: either await throws
LocationFailed ==
    /\ locating.pc \in {"permission", "position"}
    /\ locating' = NotLocating
    /\ loading' = FALSE
    /\ lastOp' = Op("locationFailed", NoArg, NoArg, <<>>)
    /\ UNCHANGED <<pureVars, screen, configured, mounted, location, region, geoJsonData,
                   allGeoJsonData, infrastructureType, loads, switches>>

\* getCurrentLocation: getCurrentPositionAsync resolves with the fix p.  The
\* call closes over the allGeoJsonData of the render that started it.
LocationObtained(p) ==
    /\ locating.pc = "position"
    /\ location' = LocationObject(p)
    /\ region' = RegionAround(LocationObject(p))
    /\ geoJsonData' =
         IF Len(locating.all) > 0
         THEN updateNearbyFeatures(locating.all, geoJsonData, p.lat, p.lon)
         ELSE geoJsonData
    /\ loading' = FALSE
    /\ locating' = NotLocating
    /\ lastOp' = Op(IF Len(locating.all) > 0 THEN "locationUpdate" ELSE "location",
                     p.lat, p.lon, <<>>)
    /\ UNCHANGED <<pureVars, screen, configured, mounted, allGeoJsonData,
                   infrastructureType, loads, switches>>

\* supabase: a filter button is pressed; when the type changes the effect
\* on [infrastructureType] calls loadGeoJSONData() from the new render.
SelectInfrastructureType(t) ==
    /\ mounted
    /\ screen = "supabase"
    /\ t # infrastructureType
    /\ switches < MaxSwitches
    /\ switches' = switches + 1
    /\ infrastructureType' = t
    /\ IF configured
       THEN /\ loads' = Append(loads, [Closure EXCEPT !.type = t])
            /\ UNCHANGED <<geoJsonData, allGeoJsonData>>
       ELSE /\ allGeoJsonData' = <<>>
            /\ geoJsonData' = <<>>
            /\ UNCHANGED loads
    /\ lastOp' = Op("selectType", NoArg, NoArg, <<>>)
    /\ UNCHANGED <<pureVars, screen, configured, mounted, location, region, loading, locating>>

\* supabase: the query answers with the rows of the type the call asked for
\* LoadRows without setAllGeoJsonData
LoadRowsNoStore(i) ==
    /\ screen = "supabase"
    /\ i \in 1..Len(loads)
    /\ LET projects == ProjectsOfType(ProjectType(loads[i].type))
       IN  /\ Len(projects) > 0
           /\ geoJsonData' = SupabaseDataset(projects)
           /\ lastOp' = Op("loadOk", NoArg, NoArg, projects)
    /\ loads' = Remove(loads, i)
    /\ UNCHANGED <<pureVars, screen, configured, mounted, location, region, loading,
                   allGeoJsonData, infrastructureType, locating, switches>>

\* LoadRows appending the new collection to the complete view
LoadRowsMerge(i) ==
    /\ screen = "supabase"
    /\ i \in 1..Len(loads)
    /\ LET projects == ProjectsOfType(ProjectType(loads[i].type))
       IN  /\ Len(projects) > 0
           /\ allGeoJsonData' = allGeoJsonData \o SupabaseDataset(projects)
           /\ geoJsonData' = allGeoJsonData \o SupabaseDataset(projects)
           /\ lastOp' = Op("loadOk", NoArg, NoArg, projects)
    /\ loads' = Remove(loads, i)
    /\ UNCHANGED <<pureVars, screen, configured, mounted, location, region, loading,
                   infrastructureType, locating, switches>>

LoadRows(i) ==
    /\ screen = "supabase"
    /\ i \in 1..Len(loads)
    /\ LET projects == ProjectsOfType(ProjectType(loads[i].type))
       IN  /\ Len(projects) > 0
           /\ allGeoJsonData' = SupabaseDataset(projects)
           \* TEMPORARY: Show all data (the nearby filter is commented out)
           /\ geoJsonData' = SupabaseDataset(projects)
           /\ lastOp' = Op("loadOk", NoArg, NoArg, projects)
    /\ loads' = Remove(loads, i)
    /\ UNCHANGED <<pureVars, screen, configured, mounted, location, region, loading,
                   infrastructureType, locating, switches>>

\* supabase: the query answers with an error, or with no rows
\* LoadQueryFailed leaving both views as they were
LoadQueryFailedKeep(i, how) ==
    /\ screen = "supabase"
    /\ i \in 1..Len(loads)
    /\ how \in {"loadError", "loadEmpty"}
    /\ loads' = Remove(loads, i)
    /\ lastOp' = Op(how, NoArg, NoArg, <<>>)
    /\ UNCHANGED <<pureVars, screen, configured, mounted, location, region, loading,
                   geoJsonData, allGeoJsonData, infrastructureType, locating, switches>>

LoadQueryFailed(i, how) ==
    /\ screen = "supabase"
    /\ i \in 1..Len(loads)
    /\ how \in {"loadError", "loadEmpty"}
    /\ allGeoJsonData' = <<>>
    /\ geoJsonData' = <<>>
    /\ loads' = Remove(loads, i)
    /\ lastOp' = Op(how, NoArg, NoArg, <<>>)
    /\ UNCHANGED <<pureVars, screen, configured, mounted, location, region, loading,
                   infrastructureType, locating, switches>>

\* static: the six imports have settled with the layers of `datasets`.  The
\* call closes over the location and the allGeoJsonData of the render that
\* started it.
LoadStatic(i, datasets) ==
    /\ screen = "static"
    /\ i \in 1..Len(loads)
    /\ allGeoJsonData' = ValidatedData(datasets)
    /\ geoJsonData' =
         IF loads[i].location.known
         THEN updateNearbyFeatures(loads[i].all, geoJsonData,
                  loads[i].location.latitude, loads[i].location.longitude)
         ELSE ValidatedData(datasets)
    /\ loads' = Remove(loads, i)
    /\ lastOp' = Op("loadOk", NoArg, NoArg, datasets)
    /\ UNCHANGED <<pureVars, screen, configured, mounted, location, region, loading,
                   infrastructureType, locating, switches>>

\* either screen: something in the try block throws; catch: setGeoJsonData([])
LoadThrows(i) ==
    /\ i \in 1..Len(loads)
    /\ geoJsonData' = <<>>
    /\ loads' = Remove(loads, i)
    /\ lastOp' = Op("loadThrow", NoArg, NoArg, <<>>)
    /\ UNCHANGED <<pureVars, screen, configured, mounted, location, region, loading,
                   allGeoJsonData, infrastructureType, locating, switches>>

\* handleRegionChange with a filter that works in place on the complete view
handleRegionChangeInPlace(r) ==
    /\ mounted
    /\ region' = Region(r.lat, r.lon, 922, 421)
    /\ geoJsonData' = updateNearbyFeatures(allGeoJsonData, geoJsonData, r.lat, r.lon)
    /\ allGeoJsonData' = updateNearbyFeatures(allGeoJsonData, geoJsonData, r.lat, r.lon)
    /\ lastOp' = Op("regionChange", r.lat, r.lon, <<>>)
    /\ UNCHANGED <<pureVars, screen, configured, mounted, location, loading,
                   infrastructureType, locating, loads, switches>>

\* onRegionChangeComplete: the map reports its new centre r
handleRegionChange(r) ==
    /\ mounted
    /\ region' = Region(r.lat, r.lon, 922, 421)
    /\ geoJsonData' = updateNearbyFeatures(allGeoJsonData, geoJsonData, r.lat, r.lon)
    /\ lastOp' = Op("regionChange", r.lat, r.lon, <<>>)
    /\ UNCHANGED <<pureVars, screen, configured, mounted, location, loading, allGeoJsonData,
                   infrastructureType, locating, loads, switches>>

\* the location button
centerOnLocation ==
    /\ mounted
    /\ location.known
    /\ region' = RegionAround(location)
    /\ geoJsonData' = updateNearbyFeatures(allGeoJsonData, geoJsonData,
                          location.latitude, location.longitude)
    /\ lastOp' = Op("center", location.latitude, location.longitude, <<>>)
    /\ UNCHANGED <<pureVars, screen, configured, mounted, location, loading, allGeoJsonData,
                   infrastructureType, locating, loads, switches>>

\* the six colours of the layers, in the order of the conditional
Palette == <<"#FF6B6B", "#4ECDC4", "#9B59B6", "#E67E22", "#2ECC71", "#F1C40F">>

\* StrokeColorAt going round the palette
StrokeColorAtCyclic(index) == Palette[(index % Len(Palette)) + 1]

\* strokeColor of the layer at index (zero-based) of geoJsonData
StrokeColorAt(index) ==
    CASE index = 0 -> "#FF6B6B"
      [] index = 1 -> "#4ECDC4"
      [] index = 2 -> "#9B59B6"
      [] index = 3 -> "#E67E22"
      [] index = 4 -> "#2ECC71"
      [] OTHER -> "#F1C40F"

\* strokeWidth={index === 5 ? 3 : 2}
StrokeWidthAt(index) == IF index = 5 THEN 3 ELSE 2

\* geoJsonData.map((data, index) => <GeoJSONLayer ... />)
Layers(shown) ==
    [i \in 1..Len(shown) |->
        GeoJSONLayer(shown[i], StrokeColorAt(i - 1), StrokeWidthAt(i - 1))]

\* what the screen draws of the nearby view: one GeoJSONLayer per collection
MapLayers == Layers(geoJsonData)

MapElements == Flatten([i \in 1..Len(geoJsonData) |-> MapLayers[i].elements])

\* handleFeaturePress: the alert it shows, by the first of BR_NAME, KM_POST
\* and SITE_NAME the feature has; `about` is what the title is made of (the
\* geometry type goes into the message of the generic alert)
handleFeaturePress(feature) ==
    LET props == feature.properties
    IN  IF ~Falsy(props.BR_NAME) THEN [alert |-> "Bridge", about |-> props.BR_NAME]
        ELSE IF ~Falsy(props.KM_POST) THEN [alert |-> "Kilometer Post", about |-> props.KM_POST]
        ELSE IF ~Falsy(props.SITE_NAME) THEN [alert |-> "Route", about |-> props.SITE_NAME]
        ELSE [alert |-> "Infrastructure Feature", about |-> Str(Len(feature.geometry.type))]

\* what lastOp records of a press: the collection and the primitive pressed,
\* the feature handed to onFeaturePress, and the alert shown
Pressed(i, primitive, feature) ==
    [layer |-> i, key |-> primitive.key, coordinates |-> primitive.coordinates,
     feature |-> feature, shown |-> handleFeaturePress(feature)]

\* FeaturePress resolving the feature by the primitive's index in the
\* complete view
FeaturePressByIndex(i, e) ==
    /\ mounted
    /\ i \in 1..Len(geoJsonData)
    /\ \A j \in 1..Len(geoJsonData) : ~MapLayers[j].threw
    /\ e \in 1..Len(MapLayers[i].elements)
    /\ LET primitive == MapLayers[i].elements[e]
       IN  lastOp' = Op("featurePress", NoArg, NoArg,
                        <<Pressed(i, primitive,
                              allGeoJsonData[i].features[primitive.key.index + 1])>>)
    /\ UNCHANGED <<pureVars, screen, configured, mounted, location, region, loading,
                   geoJsonData, allGeoJsonData, infrastructureType, locating, loads,
                   switches>>

\* the user presses primitive e of the layer of collection i:
\* onPress={() => onFeaturePress && onFeaturePress(feature)}, with the
\* feature the primitive was made from in data.features.map
FeaturePress(i, e) ==
    /\ mounted
    /\ i \in 1..Len(geoJsonData)
    /\ \A j \in 1..Len(geoJsonData) : ~MapLayers[j].threw
    /\ e \in 1..Len(MapLayers[i].elements)
    /\ LET primitive == MapLayers[i].elements[e]
       IN  lastOp' = Op("featurePress", NoArg, NoArg,
                        <<Pressed(i, primitive, primitive.feature)>>)
    /\ UNCHANGED <<pureVars, screen, configured, mounted, location, region, loading,
                   geoJsonData, allGeoJsonData, infrastructureType, locating, loads,
                   switches>>

MapNext ==
    \/ Mount
    \/ PermissionDenied
    \/ PermissionGranted
    \/ LocationFailed
    \/ \E p \in Fixes : LocationObtained(p)
    \/ \E t \in InfrastructureTypes : SelectInfrastructureType(t)
    \/ \E i \in 1..Len(loads) : LoadRows(i)
    \/ \E i \in 1..Len(loads), how \in {"loadError", "loadEmpty"} : LoadQueryFailed(i, how)
    \/ \E i \in 1..Len(loads), datasets \in StaticBundles : LoadStatic(i, datasets)
    \/ \E i \in 1..Len(loads) : LoadThrows(i)
    \/ \E r \in RefInputs : handleRegionChange(r)
    \/ centerOnLocation
    \/ \E i \in 1..Len(geoJsonData) :
          \E e \in 1..Len(MapLayers[i].elements) : FeaturePress(i, e)

(***************************************************************************)
(* filterNearbyFeatures called on its own, on bounded arguments            *)
(***************************************************************************)
FilterData ==
    { <<>>,
      <<FeatureCollection(<<BridgeNear, BridgeFar>>)>>,
      <<FeatureCollection(<<RoadFromFar, RoadFromNear>>),
        FeatureCollection(<<RouteFromNear, RouteFromFar>>)>>,
      <<FeatureCollection(<<AreaNear, PostNear>>)>>,
      <<NullDataset, FeatureCollection(<<PostNear, BridgeNear, RoadFromNear>>)>>,
      <<NullDataset,
        FeatureCollection(<<BridgeNear, BridgeFar, PostNear, NoGeometry,
                            RoadFromFar, RoadFromNear>>),
        FeatureCollection(<<RouteFromFar, RouteFromNear>>)>>,
      <<FeatureCollection(<<NoCoordinates, BridgeNear, NoGeometry, UnknownType,
                            PostNear, EmptyLine, TextPoint, BridgeFar, NaNPoint,
                            RoadFromNear, EmptyFirstLine, ShortPoint,
                            RouteWithEmptyLine>>),
        FeatureCollection(<<RoadFromFar, RouteFromNear>>)>> }
    \cup StaticBundles

\* the radius of the screen, zero, a negative one, and the exact distances
\* from Manila of NearPt and of FarPt
RadiusInputs ==
    { Km(NearbyRadiusKm), Km(0), Km(-1),
      calculateDistance(Manila.lat, Manila.lon, NearPt.lat, NearPt.lon),
      calculateDistance(Manila.lat, Manila.lon, FarPt.lat, FarPt.lon) }

FilterCalls ==
    [data : FilterData, userLat : {RefPoints[i].lat : i \in 1..Len(RefPoints)},
     userLon : {RefPoints[i].lon : i \in 1..Len(RefPoints)}, radiusKm : RadiusInputs]

NoCall == [data |-> <<>>, userLat |-> Undefined, userLon |-> Undefined, radiusKm |-> Undefined]

FilterIdle ==
    /\ call = NoCall
    /\ returned = FALSE
    /\ result = <<>>

FilterInit ==
    /\ call \in FilterCalls
    /\ returned = FALSE
    /\ result = <<>>

FilterReturns ==
    /\ ~returned
    /\ call # NoCall
    /\ result' = filterNearbyFeatures(call.data, call.userLat, call.userLon, call.radiusKm)
    /\ returned' = TRUE
    /\ UNCHANGED <<call, mapVars, distanceVars, layerVars, moreVars>>

\* the map screen before it is mounted, which the filter does not touch
MapIdle ==
    /\ MapInit
    /\ screen = "static"

(***************************************************************************)
(* calculateDistance called on its own, on bounded arguments               *)
(***************************************************************************)
Coord(lat, lon) == [lat |-> Num(lat), lon |-> Num(lon)]

\* Coordinates in three neighbourhoods (calculateDistance is evaluated for
\* two coordinates of the same one): around Manila; south of the equator
\* and west of Greenwich; astride the equator and the prime meridian.
Neighbourhoods ==
    << <<Manila, NearPt, FarPt, MidPt, Coord(145995, 1211000), Coord(147000, 1209842)>>,
       <<Coord(-334489, -706693), Coord(-334000, -706000), Coord(-335000, -707500)>>,
       <<Coord(100, 100), Coord(-100, -100), Coord(0, 0), Coord(150, -200)>> >>

MeasureCalls ==
    UNION { {[a |-> Neighbourhoods[n][i], b |-> Neighbourhoods[n][j]] :
                i \in 1..Len(Neighbourhoods[n]), j \in 1..Len(Neighbourhoods[n])} :
            n \in 1..Len(Neighbourhoods) }

NoCoord == [lat |-> Undefined, lon |-> Undefined]

NoMeasure == [a |-> NoCoord, b |-> NoCoord]

NoDistances == [ab |-> Undefined, ba |-> Undefined, aa |-> Undefined]

DistanceIdle ==
    /\ measure = NoMeasure
    /\ distances = NoDistances

DistanceInit ==
    /\ measure \in MeasureCalls
    /\ distances = NoDistances

\* calculateDistance(a, b), calculateDistance(b, a) and calculateDistance(a, a)
Measures ==
    /\ measure # NoMeasure
    /\ distances = NoDistances
    /\ distances' =
         [ab |-> calculateDistance(measure.a.lat, measure.a.lon,
                                   measure.b.lat, measure.b.lon),
          ba |-> calculateDistance(measure.b.lat, measure.b.lon,
                                   measure.a.lat, measure.a.lon),
          aa |-> calculateDistance(measure.a.lat, measure.a.lon,
                                   measure.a.lat, measure.a.lon)]
    /\ UNCHANGED <<measure, mapVars, filterVars, layerVars, moreVars>>

\* GeoJSONLayer before it renders
NoLayer == NullDataset

LayerIdle ==
    /\ layer = NoLayer
    /\ rendered = "no"
    /\ primitives = <<>>

(***************************************************************************)
(* GeoJSONLayer rendered on its own, on bounded collections                *)
(***************************************************************************)
LayerData ==
    {NullDataset}
    \cup UNION { {FeatureCollection(fs) : fs \in [1..n -> LayerFeatures]} :
                 n \in 0..MaxLayerFeatures }

LayerInit ==
    /\ layer \in LayerData
    /\ rendered = "no"
    /\ primitives = <<>>

\* one render with the default stroke: it returns its elements or throws
Renders ==
    /\ rendered = "no"
    /\ LET out == GeoJSONLayer(layer, DefaultStrokeColor, DefaultStrokeWidth)
       IN  /\ rendered' = IF out.threw THEN "threw" ELSE "rendered"
           /\ primitives' = out.elements
    /\ UNCHANGED <<layer, mapVars, filterVars, distanceVars, moreVars>>

(***************************************************************************)
(* The map's layers drawn on their own, for views of any length            *)
(***************************************************************************)
\* how many collections a view given to the render holds at most
MaxCollections == 7

PaletteIdle ==
    /\ view = <<>>
    /\ painted = FALSE
    /\ strokes = <<>>

\* collections of lines, of an area and a point, and of nothing
PaletteCollections ==
    {FeatureCollection(<<RoadFromNear, RouteFromNear>>),
     FeatureCollection(<<AreaNear, BridgeNear>>)}

PaletteInit ==
    /\ view \in UNION {[1..n -> PaletteCollections] : n \in 0..MaxCollections}
    /\ painted = FALSE
    /\ strokes = <<>>

\* one render of the map's layers
Paints ==
    /\ ~painted
    /\ painted' = TRUE
    /\ strokes' = Layers(view)
    /\ UNCHANGED <<view, mapVars, filterVars, distanceVars, layerVars, cameraVars, reportVars,
                   centroidVars, nearbyVars>>

(***************************************************************************)
(* CameraScreen: the report form                                           *)
(***************************************************************************)
\* a text is the sequence of its characters
Whitespace == {" ", "\t", "\n"}

RECURSIVE TrimStart(_)
TrimStart(text) ==
    IF Len(text) > 0 /\ text[1] \in Whitespace THEN TrimStart(Tail(text)) ELSE text

RECURSIVE TrimEnd(_)
TrimEnd(text) ==
    IF Len(text) > 0 /\ text[Len(text)] \in Whitespace
    THEN TrimEnd(SubSeq(text, 1, Len(text) - 1))
    ELSE text

\* a description taken as it is
TrimNothing(text) == text

\* String.prototype.trim
Trim(text) == TrimEnd(TrimStart(text))

NoPhoto == "null"

\* what the camera and the image library hand back
PhotoUris == {"file:///photo-1.jpg", "file:///photo-2.jpg"}

\* two of the ids of issueTypes
IssueTypeIds == {"pothole", "other"}

\* what the user may have typed
Descriptions == {<<>>, <<" ">>, <<"\n", " ">>, <<"a">>, <<" ", "a", " ">>}

\* useState initial values
CameraInit ==
    /\ photo = NoPhoto
    /\ showCamera = FALSE
    /\ selectedIssueType = ""
    /\ description = <<>>
    /\ isSubmitting = FALSE
    /\ alert = "none"
    /\ pending = 0
    /\ cameraOp = "init"

CameraIdle == CameraInit

\* everything but the form
NotCamera ==
    <<mapVars, filterVars, distanceVars, layerVars, paletteVars, reportVars, centroidVars,
      nearbyVars>>

\* the form is on the screen and no alert covers it
FormShown == ~showCamera /\ alert = "none"

\* Take Photo: onPress={() => setShowCamera(true)}
OpenCamera ==
    /\ FormShown
    /\ showCamera' = TRUE
    /\ cameraOp' = "openCamera"
    /\ UNCHANGED <<NotCamera, photo, selectedIssueType, description, isSubmitting, alert,
                   pending>>

\* the close button of the camera: onPress={() => setShowCamera(false)}
CloseCamera ==
    /\ showCamera /\ alert = "none"
    /\ showCamera' = FALSE
    /\ cameraOp' = "closeCamera"
    /\ UNCHANGED <<NotCamera, photo, selectedIssueType, description, isSubmitting, alert,
                   pending>>

\* takePicture: takePictureAsync resolves
takePicture(uri) ==
    /\ showCamera /\ alert = "none"
    /\ photo' = uri
    /\ showCamera' = FALSE
    /\ cameraOp' = "takePicture"
    /\ UNCHANGED <<NotCamera, selectedIssueType, description, isSubmitting, alert, pending>>

\* pickImage: the library returns an image
pickImage(uri) ==
    /\ FormShown
    /\ photo' = uri
    /\ cameraOp' = "pickImage"
    /\ UNCHANGED <<NotCamera, showCamera, selectedIssueType, description, isSubmitting,
                   alert, pending>>

\* the remove button of the photo: onPress={() => setPhoto(null)}
RemovePhoto ==
    /\ FormShown
    /\ photo # NoPhoto
    /\ photo' = NoPhoto
    /\ cameraOp' = "removePhoto"
    /\ UNCHANGED <<NotCamera, showCamera, selectedIssueType, description, isSubmitting,
                   alert, pending>>

\* an issue type button: onPress={() => setSelectedIssueType(issue.id)}
SelectIssueType(id) ==
    /\ FormShown
    /\ selectedIssueType' = id
    /\ cameraOp' = "selectIssueType"
    /\ UNCHANGED <<NotCamera, photo, showCamera, description, isSubmitting, alert, pending>>

\* the text input: onChangeText={setDescription}
ChangeDescription(text) ==
    /\ FormShown
    /\ text # description
    /\ description' = text
    /\ cameraOp' = "changeDescription"
    /\ UNCHANGED <<NotCamera, photo, showCamera, selectedIssueType, isSubmitting, alert,
                   pending>>

\* the alert submitReport returns with, "none" when it goes on to submit
SubmitAlert ==
    IF photo = NoPhoto THEN "Missing Photo"
    ELSE IF selectedIssueType = "" THEN "Missing Issue Type"
    ELSE IF Len(Trim(description)) = 0 THEN "Missing Description"
    ELSE "none"

\* submitReport behind a button that is never disabled
submitReportAlwaysEnabled ==
    /\ FormShown
    /\ cameraOp' = "submitReport"
    /\ IF SubmitAlert # "none"
       THEN /\ alert' = SubmitAlert
            /\ UNCHANGED <<isSubmitting, pending>>
       ELSE /\ isSubmitting' = TRUE
            /\ pending' = pending + 1
            /\ UNCHANGED alert
    /\ UNCHANGED <<NotCamera, photo, showCamera, selectedIssueType, description>>

\* the submit button (disabled={isSubmitting}) is pressed: submitReport up
\* to its first return or to its await
submitReport ==
    /\ FormShown
    /\ ~isSubmitting
    /\ cameraOp' = "submitReport"
    /\ IF SubmitAlert # "none"
       THEN /\ alert' = SubmitAlert
            /\ UNCHANGED <<isSubmitting, pending>>
       ELSE /\ isSubmitting' = TRUE
            /\ pending' = pending + 1
            /\ UNCHANGED alert
    /\ UNCHANGED <<NotCamera, photo, showCamera, selectedIssueType, description>>

\* the two seconds are over: the alert 'Report Submitted', then finally
SubmissionSucceeds ==
    /\ pending > 0
    /\ pending' = pending - 1
    /\ alert' = "Report Submitted"
    /\ isSubmitting' = FALSE
    /\ cameraOp' = "submitted"
    /\ UNCHANGED <<NotCamera, photo, showCamera, selectedIssueType, description>>

\* something in the try block throws: catch shows 'Error', then finally
SubmissionFails ==
    /\ pending > 0
    /\ pending' = pending - 1
    /\ alert' = "Error"
    /\ isSubmitting' = FALSE
    /\ cameraOp' = "submitFailed"
    /\ UNCHANGED <<NotCamera, photo, showCamera, selectedIssueType, description>>

\* OK on the alert; the OK of 'Report Submitted' clears the form
AlertOk ==
    /\ alert # "none"
    /\ alert' = "none"
    /\ cameraOp' = "alertOk"
    /\ IF alert = "Report Submitted"
       THEN /\ photo' = NoPhoto
            /\ selectedIssueType' = ""
            /\ description' = <<>>
       ELSE UNCHANGED <<photo, selectedIssueType, description>>
    /\ UNCHANGED <<NotCamera, showCamera, isSubmitting, pending>>

CameraNext ==
    \/ OpenCamera
    \/ CloseCamera
    \/ \E uri \in PhotoUris : takePicture(uri)
    \/ \E uri \in PhotoUris : pickImage(uri)
    \/ RemovePhoto
    \/ \E id \in IssueTypeIds : SelectIssueType(id)
    \/ \E text \in Descriptions : ChangeDescription(text)
    \/ submitReport
    \/ SubmissionSucceeds
    \/ SubmissionFails
    \/ AlertOk

(***************************************************************************)
(* public.reports: the trigger that normalises the two text arrays         *)
(***************************************************************************)
\* how many rows reports holds at most
MaxReports == 1

\* a text value, and the null of type text
Text(chars) == [null |-> FALSE, chars |-> chars]

NullText == [null |-> TRUE, chars |-> <<>>]

\* a text[] value, and the null of type text[]
TextArray(items) == [null |-> FALSE, items |-> items]

NullArray == [null |-> TRUE, items |-> <<>>]

RECURSIVE BtrimStart(_)
BtrimStart(chars) ==
    IF Len(chars) > 0 /\ chars[1] = " " THEN BtrimStart(Tail(chars)) ELSE chars

RECURSIVE BtrimEnd(_)
BtrimEnd(chars) ==
    IF Len(chars) > 0 /\ chars[Len(chars)] = " "
    THEN BtrimEnd(SubSeq(chars, 1, Len(chars) - 1))
    ELSE chars

\* btrim(x): the spaces at both ends removed; null for null
btrim(x) == IF x.null THEN NullText ELSE Text(BtrimEnd(BtrimStart(x.chars)))

\* nullif(x, ''): null when x is the empty text
NullIfEmpty(x) == IF ~x.null /\ x.chars = <<>> THEN NullText ELSE x

\* array_agg(e): one element per row, nulls included; null for no row
ArrayAgg(rows) == IF Len(rows) = 0 THEN NullArray ELSE TextArray(rows)

\* coalesce(a, '{}')
CoalesceEmpty(a) == IF a.null THEN TextArray(<<>>) ELSE a

\* select coalesce(array_agg(nullif(btrim(x), '')), '{}') from unnest($1) as t(x)
TrimTextArray(array) ==
    CoalesceEmpty(ArrayAgg([k \in 1..Len(array.items) |->
                               NullIfEmpty(btrim(array.items[k]))]))

\* tg_normalize_report_arrays: each array that is not null is replaced
tg_normalize_report_arrays(new) ==
    [observed_materials |->
        IF ~new.observed_materials.null THEN TrimTextArray(new.observed_materials)
        ELSE new.observed_materials,
     observed_hazards |->
        IF ~new.observed_hazards.null THEN TrimTextArray(new.observed_hazards)
        ELSE new.observed_hazards]

\* the arrays a statement may give a column
ArrayInputs ==
    {NullArray,
     TextArray(<<>>),
     TextArray(<<Text(<<" ", "a", " ">>)>>),
     TextArray(<<Text(<<"a">>), Text(<<" ", " ">>), Text(<<"b">>)>>),
     TextArray(<<Text(<<>>)>>),
     TextArray(<<NullText, Text(<<"a", " ", "b">>)>>),
     TextArray(<<Text(<<" ">>), Text(<<>>)>>),
     TextArray(<<Text(<<"a">>), Text(<<"b">>)>>)}

NewReports == [observed_materials : ArrayInputs, observed_hazards : ArrayInputs]

NoReport == [observed_materials |-> NullArray, observed_hazards |-> NullArray]

ReportsInit ==
    /\ reports = <<>>
    /\ reportOp = [op |-> "none", id |-> 0, new |-> NoReport]

ReportsIdle == ReportsInit

NotReports ==
    <<mapVars, filterVars, distanceVars, layerVars, paletteVars, cameraVars, centroidVars,
      nearbyVars>>

\* insert into public.reports: trg_reports_normalize_arrays runs before
InsertReport(new) ==
    /\ Len(reports) < MaxReports
    /\ reports' = Append(reports, tg_normalize_report_arrays(new))
    /\ reportOp' = [op |-> "insert", id |-> Len(reports) + 1, new |-> new]
    /\ UNCHANGED NotReports

\* update public.reports set ... where id = id: the trigger runs before
UpdateReport(id, new) ==
    /\ id \in 1..Len(reports)
    /\ reports' = [reports EXCEPT ![id] = tg_normalize_report_arrays(new)]
    /\ reportOp' = [op |-> "update", id |-> id, new |-> new]
    /\ UNCHANGED NotReports

ReportsNext ==
    \/ \E new \in NewReports : InsertReport(new)
    \/ \E id \in 1..Len(reports), new \in NewReports : UpdateReport(id, new)

(***************************************************************************)
(* public.projects and the materialized view projects_centroids            *)
(***************************************************************************)
\* how many projects the table holds at most
MaxProjects == 2

\* a place, in metres north and east of a datum
Place(north, east) == [north |-> north, east |-> east]

NullGeom == [type |-> "NULL", points |-> <<>>]

PointGeom(p) == [type |-> "POINT", points |-> <<p>>]

LineGeom(p, q) == [type |-> "LINESTRING", points |-> <<p, q>>]

\* st_centroid of a line of one segment: its middle
st_centroid(geom) ==
    Place((geom.points[1].north + geom.points[Len(geom.points)].north) \div 2,
          (geom.points[1].east + geom.points[Len(geom.points)].east) \div 2)

NullCenter == [null |-> TRUE, north |-> 0, east |-> 0]

Center(p) == [null |-> FALSE, north |-> p.north, east |-> p.east]

\* case when geometrytype(geom) = 'POINT' then geom
\*      when geom is not null then st_centroid(geom) else null end
CenterOf(geom) ==
    IF geom.type = "POINT" THEN Center(geom.points[1])
    ELSE IF geom # NullGeom THEN Center(st_centroid(geom))
    ELSE NullCenter

Project(id, geom) ==
    [project_id |-> id, name |-> "name", type |-> "road", status_official |-> "ongoing",
     geom |-> geom]

CentroidRow(project) ==
    [project_id |-> project.project_id, name |-> project.name, type |-> project.type,
     status_official |-> project.status_official, center |-> CenterOf(project.geom)]

\* the view's query without its where clause
CentroidsQueryAllRows(table) == {CentroidRow(project) : project \in table}

\* select ... from public.projects where geom is not null
CentroidsQuery(table) ==
    {CentroidRow(project) : project \in {row \in table : row.geom # NullGeom}}

\* the geometries a project may be given
Geoms ==
    {NullGeom,
     PointGeom(Place(0, 40)),
     LineGeom(Place(0, 100), Place(200, 300))}

ProjectIds == 1..MaxProjects

CentroidsInit ==
    /\ projectsTable = {}
    /\ centroids = {}
    /\ dbOp = "none"

CentroidsIdle == CentroidsInit

NotCentroids ==
    <<mapVars, filterVars, distanceVars, layerVars, paletteVars, cameraVars, reportVars,
      nearbyVars>>

\* insert into public.projects
InsertProject(id, geom) ==
    /\ \A row \in projectsTable : row.project_id # id
    /\ projectsTable' = projectsTable \cup {Project(id, geom)}
    /\ dbOp' = "insert"
    /\ UNCHANGED <<centroids, NotCentroids>>

\* update public.projects set geom = ... where project_id = id
UpdateProject(id, geom) ==
    /\ \E row \in projectsTable : row.project_id = id /\ row.geom # geom
    /\ projectsTable' = {IF row.project_id = id THEN Project(id, geom) ELSE row : row \in projectsTable}
    /\ dbOp' = "update"
    /\ UNCHANGED <<centroids, NotCentroids>>

\* delete from public.projects where project_id = id
DeleteProject(id) ==
    /\ \E row \in projectsTable : row.project_id = id
    /\ projectsTable' = {row \in projectsTable : row.project_id # id}
    /\ dbOp' = "delete"
    /\ UNCHANGED <<centroids, NotCentroids>>

\* refresh_projects_centroids():
\* refresh materialized view concurrently public.projects_centroids
refresh_projects_centroids ==
    /\ centroids' = CentroidsQuery(projectsTable)
    /\ dbOp' = "refresh"
    /\ UNCHANGED <<projectsTable, NotCentroids>>

CentroidsNext ==
    \/ \E id \in ProjectIds, geom \in Geoms : InsertProject(id, geom)
    \/ \E id \in ProjectIds, geom \in Geoms : UpdateProject(id, geom)
    \/ \E id \in ProjectIds : DeleteProject(id)
    \/ refresh_projects_centroids

(***************************************************************************)
(* nearby_projects(lat, lng, meters) over the view                         *)
(***************************************************************************)
\* Return up to 100 projects
NearbyLimit == 100

\* meters integer default 500
DefaultMeters == 500

\* the square of the distance in metres from a centre to (lat, lng)
Distance2(center, lat, lng) ==
    (center.north - lat) * (center.north - lat) + (center.east - lng) * (center.east - lng)

\* the rows of `within` before `row` in the order of the result: nearer, or
\* as near and of a smaller project_id
Before(within, row, lat, lng) ==
    {other \in within :
        \/ Distance2(other.center, lat, lng) < Distance2(row.center, lat, lng)
        \/ /\ Distance2(other.center, lat, lng) = Distance2(row.center, lat, lng)
           /\ other.project_id < row.project_id}

NearbyRow(row, lat, lng) ==
    [project_id |-> row.project_id, name |-> row.name, type |-> row.type,
     status_official |-> row.status_official,
     distance_m |-> Sqrt(Distance2(row.center, lat, lng)), center |-> row.center]

\* nearby_projects taking the rows within the radius in the order of their
\* project_id
nearby_projectsUnordered(table, lat, lng, meters) ==
    LET within == {row \in table :
                      ~row.center.null /\ Distance2(row.center, lat, lng) <= meters * meters}
        place == [row \in within |->
                    Cardinality({other \in within : other.project_id < row.project_id}) + 1]
        count == IF Cardinality(within) < NearbyLimit THEN Cardinality(within)
                 ELSE NearbyLimit
    IN  [k \in 1..count |->
            NearbyRow(CHOOSE row \in within : place[row] = k, lat, lng)]

\* Return up to 100 projects within :meters of (:lat,:lng), ordered by
\* distance
nearby_projects(table, lat, lng, meters) ==
    LET within == {row \in table :
                      ~row.center.null /\ Distance2(row.center, lat, lng) <= meters * meters}
        place == [row \in within |-> Cardinality(Before(within, row, lat, lng)) + 1]
        count == IF Cardinality(within) < NearbyLimit THEN Cardinality(within)
                 ELSE NearbyLimit
    IN  [k \in 1..count |->
            NearbyRow(CHOOSE row \in within : place[row] = k, lat, lng)]

\* how many rows the view given to nearby_projects holds
ManyProjects == 103

\* projects every eight metres along a road, the odd ones north of it
RoadTable ==
    {CentroidRow(Project(id, PointGeom(Place(IF id % 2 = 1 THEN 6 ELSE 0, 8 * id)))) :
        id \in 1..ManyProjects}

\* the calls: from places along the road, with a radius (given) or with
\* none
NearbyQueries ==
    [lat : {0, 30}, lng : {1, 101, 413, 821, 1401}, given : {TRUE},
     meters : {0, 50, 200, 450, 1000}]
    \cup [lat : {0, 30}, lng : {1, 101, 413, 821, 1401}, given : {FALSE}, meters : {0}]

NoQuery == [lat |-> 0, lng |-> 0, given |-> FALSE, meters |-> 0]

\* the radius of a call: meters integer default 500
MetersOf(q) == IF q.given THEN q.meters ELSE DefaultMeters

NearbyIdle ==
    /\ query = NoQuery
    /\ found = [done |-> FALSE, rows |-> <<>>]

NearbyInit ==
    /\ query \in NearbyQueries
    /\ found = [done |-> FALSE, rows |-> <<>>]

\* select * from nearby_projects(lat, lng [, meters])
Asks ==
    /\ ~found.done
    /\ found' = [done |-> TRUE,
                 rows |-> nearby_projects(centroids, query.lat, query.lng,
                                          MetersOf(query))]
    /\ UNCHANGED <<query, centroidVars, mapVars, filterVars, distanceVars, layerVars,
                   paletteVars, cameraVars, reportVars>>

\* the state machines beside the map screen's, before they start
MoreIdle == PaletteIdle /\ CameraIdle /\ ReportsIdle /\ CentroidsIdle /\ NearbyIdle

(***************************************************************************)
(* Specifications                                                          *)
(***************************************************************************)
vars == <<mapVars, pureVars>>

Init == MapInit /\ FilterIdle /\ DistanceIdle /\ LayerIdle /\ MoreIdle

Next == MapNext

\* the map screen, either version, from construction
Spec == Init /\ [][Next]_vars

FilterSpecInit == FilterInit /\ MapIdle /\ DistanceIdle /\ LayerIdle /\ MoreIdle

FilterNext == FilterReturns

\* filterNearbyFeatures on every bounded argument list
SpecFilter == FilterSpecInit /\ [][FilterNext]_vars

DistanceSpecInit == DistanceInit /\ MapIdle /\ FilterIdle /\ LayerIdle /\ MoreIdle

DistanceNext == Measures

\* calculateDistance on every bounded pair of coordinates
SpecDistance == DistanceSpecInit /\ [][DistanceNext]_vars

LayerSpecInit == LayerInit /\ MapIdle /\ FilterIdle /\ DistanceIdle /\ MoreIdle

LayerNext == Renders

\* GeoJSONLayer on every bounded collection
SpecLayer == LayerSpecInit /\ [][LayerNext]_vars

PureIdle == MapIdle /\ FilterIdle /\ DistanceIdle /\ LayerIdle

DatabaseIdle == CentroidsIdle /\ NearbyIdle

PaletteSpecInit == PaletteInit /\ PureIdle /\ CameraIdle /\ ReportsIdle /\ DatabaseIdle

PaletteNext == Paints

\* the map's layers on every bounded view
SpecPalette == PaletteSpecInit /\ [][PaletteNext]_vars

CameraSpecInit == CameraInit /\ PureIdle /\ PaletteIdle /\ ReportsIdle /\ DatabaseIdle

\* CameraScreen from construction
SpecCamera == CameraSpecInit /\ [][CameraNext]_vars

ReportsSpecInit ==
    ReportsInit /\ PureIdle /\ PaletteIdle /\ CameraIdle /\ DatabaseIdle

\* inserts and updates on public.reports
SpecReports == ReportsSpecInit /\ [][ReportsNext]_vars

CentroidsSpecInit ==
    CentroidsInit /\ NearbyIdle /\ PureIdle /\ PaletteIdle /\ CameraIdle /\ ReportsIdle

\* the view is refreshed out-of-band whenever the projects change: a
\* refresh that stays due is carried out
OutOfBandRefresh == WF_vars(refresh_projects_centroids)

\* statements on public.projects, and the refresh of the view
SpecCentroids == CentroidsSpecInit /\ [][CentroidsNext]_vars /\ OutOfBandRefresh

NearbySpecInit ==
    /\ NearbyInit
    /\ projectsTable = {} /\ centroids = RoadTable /\ dbOp = "none"
    /\ PureIdle /\ PaletteIdle /\ CameraIdle /\ ReportsIdle

NearbyNext == Asks

\* nearby_projects on every bounded call
SpecNearby == NearbySpecInit /\ [][NearbyNext]_vars

(***************************************************************************)
(* Properties                                                              *)
(***************************************************************************)
Finite(x) == x.k = "finite"

\* no location fix and no map-centre event so far: every handler that
\* supplies a coordinate also sets the region
NoReferenceYet == ~location.known /\ region = InitialRegion

TenKm == Km(NearbyRadiusKm)

\* feature f of the argument's collection i is in the result's collection i
Kept(i, f) == \E k \in 1..Len(result[i].features) : result[i].features[k].id = f.id

\* the features of the call's collections that are FeatureCollections
CallFeatures ==
    UNION { {<<i, call.data[i].features[k]>> : k \in 1..Len(call.data[i].features)} :
            i \in {j \in 1..Len(call.data) : ~InvalidDataset(call.data[j])} }

\* C1: the nearby view is always a subset of the complete view: every
\* feature of geoJsonData is in the collection at the same position of
\* allGeoJsonData.
C1_NearbySubsetOfComplete ==
    /\ Len(geoJsonData) <= Len(allGeoJsonData)
    /\ \A i \in 1..Len(geoJsonData) :
         \A k \in 1..Len(geoJsonData[i].features) :
            \E m \in 1..Len(allGeoJsonData[i].features) :
               allGeoJsonData[i].features[m] = geoJsonData[i].features[k]

\* a reference update has left a proper, non-empty part of a collection
C1_Witness ==
    /\ lastOp.op = "regionChange"
    /\ \E i \in 1..Len(geoJsonData) :
         /\ Len(geoJsonData[i].features) > 0
         /\ Len(geoJsonData[i].features) < Len(allGeoJsonData[i].features)

\* C2: while no reference point has been obtained, the nearby view equals
\* the complete view, in every reachable state.
C2_NearbyIsCompleteWithoutReference ==
    NoReferenceYet => geoJsonData = allGeoJsonData

\* C3: after updateNearbyFeatures has run from a location, recentre or
\* map-centre event with a finite coordinate r, the nearby view is the
\* proximity filter of the whole current complete view around r with radius
\* 10 km.  ("location" is a fix whose handler did not call
\* updateNearbyFeatures, "locationUpdate" one whose handler did.)
C3_ReferenceUpdateFiltersComplete ==
    (/\ lastOp.op \in {"regionChange", "center", "locationUpdate"}
     /\ Finite(lastOp.lat) /\ Finite(lastOp.lon))
    => geoJsonData = filterNearbyFeatures(allGeoJsonData, lastOp.lat, lastOp.lon, TenKm)

\* a reference update from the map that keeps some features of the complete
\* view and drops others
C3_Witness ==
    /\ lastOp.op = "regionChange"
    /\ lastOp.lat = Manila.lat /\ lastOp.lon = Manila.lon
    /\ FlatIds(geoJsonData) # <<>>
    /\ FlatIds(geoJsonData) # FlatIds(allGeoJsonData)

\* C4: a load that succeeds while a reference point (the device location)
\* exists leaves the nearby view equal to the proximity filter of the newly
\* loaded complete view around that point with radius 10 km.
C4_LoadFiltersAroundReference ==
    (lastOp.op = "loadOk" /\ location.known)
    => geoJsonData = filterNearbyFeatures(allGeoJsonData, location.latitude,
                                          location.longitude, TenKm)

\* the step is a load that failed: query error, no rows, missing
\* configuration, or an exception
LoadFailedStep ==
    \/ lastOp'.op \in {"loadError", "loadEmpty", "loadThrow"}
    \/ lastOp'.op \in {"mount", "selectType"} /\ ~configured

NonFinite(x) == x.k # "finite"

\* C6: a reference update whose latitude or longitude is not a finite
\* number leaves the nearby view and the complete view unchanged.
C6_NonFiniteReferenceRejected ==
    [][(/\ lastOp'.op \in {"regionChange", "center", "locationUpdate"}
        /\ (NonFinite(lastOp'.lat) \/ NonFinite(lastOp'.lon)))
       => (geoJsonData' = geoJsonData /\ allGeoJsonData' = allGeoJsonData)]_vars

\* the ids of the features a raw dataset holds, in input order: of rows,
\* those with a geometry that is an object or a text that decodes; of
\* bundled layers, those of the layers that are FeatureCollections
RECURSIVE InputIds(_)
InputIds(raw) ==
    IF Len(raw) = 0 THEN <<>>
    ELSE LET x == raw[1]
             ids == IF "project_id" \in DOMAIN x
                    THEN IF x.kind = "object" \/ (x.kind = "string" /\ x.parses)
                         THEN <<x.project_id>> ELSE <<>>
                    ELSE IF x.type = "FeatureCollection"
                         THEN [k \in 1..Len(x.features) |-> x.features[k].id]
                         ELSE <<>>
         IN  ids \o InputIds(Tail(raw))

\* C7: after a successful load the complete view holds exactly the features
\* of that load's input, in input order, and nothing of the dataset before.
C7_LoadReplacesComplete ==
    lastOp.op = "loadOk" => FlatIds(allGeoJsonData) = InputIds(lastOp.raw)

\* a load has replaced a dataset that held other features
C7_Witness ==
    /\ lastOp.op = "loadOk"
    /\ lastOp.before # <<>>
    /\ \E k \in 1..Len(lastOp.before) :
          \A m \in 1..Len(FlatIds(allGeoJsonData)) :
             FlatIds(allGeoJsonData)[m] # lastOp.before[k]

\* the distance of the call's reference from (lat, lon) is at most its radius
Within(lat, lon) ==
    LessEq(calculateDistance(call.userLat, call.userLon, lat, lon), call.radiusKm)

\* the feature has a representative point made of two numbers
HasValidPoint(f) ==
    LET p == RepresentativePoint(f)
    IN  p.ok /\ Finite(p.lat) /\ Finite(p.lon)

\* C8: a feature with a valid representative point is retained if and only
\* if its distance from the reference is at most radiusKm; at exactly
\* radiusKm it is retained.
C8_RetainedIffWithinRadius ==
    returned =>
       \A x \in CallFeatures :
          HasValidPoint(x[2]) =>
             (Kept(x[1], x[2]) <=>
                 LET p == RepresentativePoint(x[2])
                 IN  LessEq(calculateDistance(call.userLat, call.userLon, p.lat, p.lon),
                            call.radiusKm))

\* a retained feature exactly radiusKm away, radiusKm positive
C8_Witness ==
    /\ returned
    /\ Finite(call.radiusKm) /\ call.radiusKm.n > 0
    /\ \E x \in CallFeatures :
          /\ HasValidPoint(x[2])
          /\ Kept(x[1], x[2])
          /\ LET p == RepresentativePoint(x[2])
             IN  calculateDistance(call.userLat, call.userLon, p.lat, p.lon)
                    = call.radiusKm

\* the vertices of a feature, in order, as positions: a Point's own, a
\* LineString's, and a MultiLineString's line by line
RECURSIVE Concat(_)
Concat(lines) == IF Len(lines) = 0 THEN <<>> ELSE lines[1].a \o Concat(Tail(lines))

Vertices(f) ==
    LET c == f.geometry.coordinates
    IN  CASE f.geometry.type = "Point" -> <<c>>
          [] f.geometry.type = "LineString" -> c.a
          [] f.geometry.type = "MultiLineString" -> Concat(c.a)
          [] OTHER -> <<>>

VertexWithin(v) == Within(Index(v, 1), Index(v, 0))

\* the first vertex of a geometry: a Point's coordinate, a line's first, the
\* first of the first line or ring (undefined where there is none)
FirstVertex(g) ==
    CASE g.type = "Point" -> g.coordinates
      [] g.type = "LineString" -> Index(g.coordinates, 0)
      [] g.type \in {"MultiLineString", "Polygon"} -> Index(Index(g.coordinates, 0), 0)
      [] OTHER -> Undefined

\* C9: a Point, LineString or MultiLineString is retained if and only if
\* its first vertex (the Point's own coordinate, the line's first, the
\* first line's first) is within the radius; no other vertex matters.
C9_FirstVertexDecides ==
    returned =>
       \A x \in CallFeatures :
          x[2].geometry.type \in {"Point", "LineString", "MultiLineString"} =>
             (Kept(x[1], x[2]) <=> VertexWithin(FirstVertex(x[2].geometry)))

\* the same call drops a line that starts outside and runs inside the
\* radius, and keeps one that starts inside and runs outside
C9_Witness ==
    /\ returned
    /\ \E x \in CallFeatures :
          /\ ~Kept(x[1], x[2])
          /\ \E k \in 2..Len(Vertices(x[2])) : VertexWithin(Vertices(x[2])[k])
    /\ \E x \in CallFeatures :
          /\ Kept(x[1], x[2])
          /\ \E k \in 2..Len(Vertices(x[2])) : ~VertexWithin(Vertices(x[2])[k])

\* C10: a Polygon is retained if and only if the first vertex of its first
\* (outer) ring is within the radius.
C10_PolygonByOuterRingFirstVertex ==
    returned =>
       \A x \in CallFeatures :
          x[2].geometry.type = "Polygon" =>
             (Kept(x[1], x[2]) <=>
                 VertexWithin(Index(Index(x[2].geometry.coordinates, 0), 0)))

\* the rows of the projects table whose geometry is a text that does not parse
UndecodableRows ==
    UNION { {ProjectsOfType(ProjectType(t))[k] :
                k \in {m \in 1..Len(ProjectsOfType(ProjectType(t))) :
                          LET row == ProjectsOfType(ProjectType(t))[m]
                          IN  row.kind = "string" /\ ~row.parses}} :
            t \in InfrastructureTypes }

Stored(id) == \E k \in 1..Len(FlatIds(allGeoJsonData)) : FlatIds(allGeoJsonData)[k] = id

Drawn(id) == \E k \in 1..Len(MapElements) : MapElements[k].feature.id = id

\* C15: a row whose text geometry fails to decode is in no state a feature
\* of the complete view or the feature of a drawn primitive, and after a
\* load every other row of the same answer that has a geometry, before or
\* after it, is a feature of the complete view with that geometry.
C15_UndecodableRowAbsent ==
    screen = "supabase" =>
       /\ \A row \in UndecodableRows : ~Stored(row.project_id) /\ ~Drawn(row.project_id)
       /\ lastOp.op = "loadOk" =>
             \A k \in 1..Len(lastOp.raw) :
                LET row == lastOp.raw[k]
                IN  (row.kind = "object" \/ (row.kind = "string" /\ row.parses)) =>
                       \E m \in 1..Len(allGeoJsonData[1].features) :
                          allGeoJsonData[1].features[m] =
                             Feature(row.project_id, row.geometry)

\* an answer with an undecodable row between two rows that decode has been
\* loaded, and the features of both are stored and drawn
C15_Witness ==
    /\ screen = "supabase"
    /\ lastOp.op = "loadOk"
    /\ \E k1, k2, k3 \in 1..Len(lastOp.raw) :
          /\ k1 < k2 /\ k2 < k3
          /\ lastOp.raw[k2] \in UndecodableRows
          /\ Stored(lastOp.raw[k1].project_id) /\ Drawn(lastOp.raw[k1].project_id)
          /\ Stored(lastOp.raw[k3].project_id) /\ Drawn(lastOp.raw[k3].project_id)

\* a coordinate: two finite numbers at least, the latitude in [-90, 90] and
\* the longitude in [-180, 180]
ValidCoordinate(v) ==
    /\ IsArray(v) /\ Length(v) >= 2
    /\ Finite(Index(v, 0)) /\ Finite(Index(v, 1))
    /\ Abs(Index(v, 1).n) <= 90 * Unit4
    /\ Abs(Index(v, 0).n) <= 180 * Unit4

ValidLine(line) ==
    /\ IsArray(line) /\ Length(line) > 0
    /\ \A i \in 1..Length(line) : ValidCoordinate(line.a[i])

\* the Geometry invariants: every leaf a valid coordinate, no coordinate
\* array empty at any level
ValidGeometry(g) ==
    CASE g.type = "Point" -> ValidCoordinate(g.coordinates)
      [] g.type = "LineString" -> ValidLine(g.coordinates)
      [] g.type \in {"MultiLineString", "Polygon"} ->
           /\ IsArray(g.coordinates) /\ Length(g.coordinates) > 0
           /\ \A j \in 1..Length(g.coordinates) : ValidLine(g.coordinates.a[j])
      [] OTHER -> FALSE

\* C16: every feature in the complete view satisfies the Geometry
\* invariants (a feature violating them is dropped during loading).
C16_CompleteViewGeometryValid ==
    \A i \in 1..Len(allGeoJsonData) :
       \A k \in 1..Len(allGeoJsonData[i].features) :
          ValidGeometry(allGeoJsonData[i].features[k].geometry)

\* C11: filterNearbyFeatures is a stable filter: the result has one
\* collection per collection of the argument, in the same order (an empty
\* one where the argument's is not a FeatureCollection), and the features of
\* each are the retained features of the argument's, in the argument's order.
C11_StableFilter ==
    returned =>
       /\ Len(result) = Len(call.data)
       /\ \A i \in 1..Len(call.data) :
             IF InvalidDataset(call.data[i])
             THEN result[i] = EmptyCollection
             ELSE /\ result[i].type = call.data[i].type
                  /\ result[i].features =
                        SelectSeq(call.data[i].features, LAMBDA f : Kept(i, f))

\* a collection that follows a missing one keeps two features and drops one
\* that stood between them
C11_Witness ==
    /\ returned
    /\ \E i \in 2..Len(call.data) :
          /\ InvalidDataset(call.data[i - 1])
          /\ ~InvalidDataset(call.data[i])
          /\ \E k1, k2, k3 \in 1..Len(call.data[i].features) :
                /\ k1 < k2 /\ k2 < k3
                /\ Kept(i, call.data[i].features[k1])
                /\ ~Kept(i, call.data[i].features[k2])
                /\ Kept(i, call.data[i].features[k3])

\* typeof x === 'number' and x is not NaN
IsNumber(x) == x.k \in {"finite", "Infinity", "-Infinity"}

\* The feature has no geometry or no coordinates, a geometry type that is
\* not one of the four, an empty coordinate array, or a first vertex that is
\* not two numbers.
Malformed(f) ==
    \/ f.geometry = NullGeometry
    \/ f.geometry.coordinates = Undefined
    \/ f.geometry.type \notin {"Point", "LineString", "MultiLineString", "Polygon"}
    \/ f.geometry.coordinates = Arr(<<>>)
    \/ ~IsNumber(Index(FirstVertex(f.geometry), 0))
    \/ ~IsNumber(Index(FirstVertex(f.geometry), 1))

WellFormedOnly(dataset) ==
    [dataset EXCEPT !.features = SelectSeq(@, LAMBDA f : ~Malformed(f))]

\* C12: a feature with a missing geometry, an unrecognized geometry type, an
\* empty coordinate array, or a representative coordinate that is not two
\* non-NaN numbers is not in the result, and the result is the one the same
\* call gives for the batch without those features: the filter is not
\* aborted and the other features are retained or dropped as without them.
C12_MalformedExcludedOnly ==
    returned =>
       \A i \in {j \in 1..Len(call.data) : ~InvalidDataset(call.data[j])} :
          /\ \A k \in 1..Len(call.data[i].features) :
                Malformed(call.data[i].features[k]) => ~Kept(i, call.data[i].features[k])
          /\ result[i] =
                filterNearbyFeatures(<<WellFormedOnly(call.data[i])>>, call.userLat,
                                     call.userLon, call.radiusKm)[1]

\* a batch with malformed features of every kind, of which a feature before
\* the first and one after the last malformed one are retained
C12_Witness ==
    /\ returned
    /\ \E i \in {j \in 1..Len(call.data) : ~InvalidDataset(call.data[j])} :
          LET fs == call.data[i].features
          IN  /\ \A m \in {NoGeometry, UnknownType, EmptyLine, TextPoint, NaNPoint} :
                    \E k \in 1..Len(fs) : fs[k] = m
              /\ \E k1, k2, k3 \in 1..Len(fs) :
                    /\ k1 < k2 /\ k2 < k3
                    /\ Kept(i, fs[k1]) /\ Malformed(fs[k2]) /\ Kept(i, fs[k3])
              /\ \E k \in 1..Len(fs) : ~Malformed(fs[k]) /\ ~Kept(i, fs[k])

\* C14: a collection whose raw payload is null, absent or without a
\* features array is a FeatureCollection with zero features at its position
\* in the complete view and in the nearby view, the load ends without an
\* error, and every other collection is stored as its payload and filtered
\* as it would be alone.  (lastOp.loaded is the payload of the last load
\* that succeeded; on the static screen nothing else sets the complete view.)
C14_NullPayloadIsEmptyCollection ==
    (screen = "static" /\ lastOp.loaded # <<>>) =>
       LET raw == lastOp.loaded
           filtering == /\ lastOp.op \in {"regionChange", "center"}
                        /\ Finite(lastOp.lat) /\ Finite(lastOp.lon)
       IN  /\ Len(allGeoJsonData) = Len(raw)
           /\ (lastOp.op = "loadOk" \/ filtering) => Len(geoJsonData) = Len(raw)
           /\ \A i \in 1..Len(raw) :
                 IF InvalidDataset(raw[i])
                 THEN /\ allGeoJsonData[i] = EmptyCollection
                      /\ (lastOp.op = "loadOk" \/ filtering) =>
                            geoJsonData[i] = EmptyCollection
                 ELSE /\ allGeoJsonData[i] = raw[i]
                      /\ filtering =>
                            geoJsonData[i] =
                               filterNearbyFeatures(<<raw[i]>>, lastOp.lat, lastOp.lon,
                                                    TenKm)[1]

\* the six layers were loaded with one payload missing between layers that
\* hold features, and a reference update has since kept features of a layer
\* before it and of a layer after it
C14_Witness ==
    /\ screen = "static"
    /\ lastOp.op = "regionChange"
    /\ Finite(lastOp.lat) /\ Finite(lastOp.lon)
    /\ \E i \in 1..Len(lastOp.loaded) :
          /\ InvalidDataset(lastOp.loaded[i])
          /\ geoJsonData[i] = EmptyCollection
          /\ \E j \in 1..(i - 1) : Len(geoJsonData[j].features) > 0
          /\ \E j \in (i + 1)..Len(lastOp.loaded) : Len(geoJsonData[j].features) > 0

\* C13: for all coordinate pairs a and b (two finite numbers each),
\* calculateDistance(a, b) equals calculateDistance(b, a), and
\* calculateDistance(a, a) equals 0.
C13_DistanceSymmetricAndZero ==
    distances # NoDistances =>
       /\ distances.ab = distances.ba
       /\ distances.aa = Num(0)

\* two distinct coordinates of different latitudes have been measured both
\* ways, and are a positive distance apart
C13_Witness ==
    /\ distances # NoDistances
    /\ measure.a.lat # measure.b.lat
    /\ measure.a.lon # measure.b.lon
    /\ distances.ab.n > 0

\* a valid vertex: an array of at least two numbers
NumberVertex(v) ==
    /\ IsArray(v) /\ Length(v) >= 2
    /\ TypeofNumber(Index(v, 0)) /\ TypeofNumber(Index(v, 1))

\* the valid vertices of a line in their order, latitude = coord[1] and
\* longitude = coord[0]
Outline(line) ==
    LET kept == SelectSeq(line.a, NumberVertex)
    IN  [i \in 1..Len(kept) |-> [latitude |-> kept[i].a[2], longitude |-> kept[i].a[1]]]

\* the primitives emitted for the feature at position k of the collection
PrimitivesOf(k) == SelectSeq(primitives, LAMBDA p : p.key.index = k - 1)

\* the positions of the collection's features of a geometry type
FeaturesOfType(type) ==
    {k \in 1..Len(layer.features) : layer.features[k].geometry.type = type}

\* every line of the MultiLineString is an array (of vertices, valid or not)
ArrayLines(f) ==
    /\ IsArray(f.geometry.coordinates)
    /\ \A j \in 1..Length(f.geometry.coordinates) : IsArray(f.geometry.coordinates.a[j])

C18_PolygonOuterRingOnly ==
    rendered = "rendered" =>
       \A k \in FeaturesOfType("Polygon") :
          LET c == layer.features[k].geometry.coordinates
              ps == PrimitivesOf(k)
          IN  (IsArray(c) /\ IsArray(Index(c, 0)) /\ Len(Outline(Index(c, 0))) > 0) =>
                 /\ Len(ps) = 1
                 /\ ps[1].element = "Polyline"
                 /\ ps[1].coordinates = Outline(Index(c, 0))
                 /\ \A j \in 2..Length(c) :
                       IsArray(c.a[j]) =>
                          \A h \in 1..Len(Outline(c.a[j])) :
                             (\A i \in 1..Len(Outline(Index(c, 0))) :
                                 Outline(Index(c, 0))[i] # Outline(c.a[j])[h])
                             => \A m \in 1..Len(ps[1].coordinates) :
                                   ps[1].coordinates[m] # Outline(c.a[j])[h]

\* a polygon with an outer ring of four vertices and a hole has been
\* rendered as one outline of four vertices
C18_Witness ==
    /\ rendered = "rendered"
    /\ \E k \in 1..Len(layer.features) :
          /\ layer.features[k] = AreaWithHole
          /\ Len(PrimitivesOf(k)) = 1
          /\ Len(PrimitivesOf(k)[1].coordinates) = 4

\* C19: for a LineString feature GeoJSONLayer emits exactly one polyline
\* over its valid vertices in their original order, and no primitive at all
\* when no vertex is valid.
C19_LineStringOnePolyline ==
    rendered = "rendered" =>
       \A k \in FeaturesOfType("LineString") :
          LET c == layer.features[k].geometry.coordinates
              ps == PrimitivesOf(k)
          IN  IsArray(c) =>
                 IF Len(Outline(c)) > 0
                 THEN /\ Len(ps) = 1
                      /\ ps[1].element = "Polyline"
                      /\ ps[1].coordinates = Outline(c)
                 ELSE Len(ps) = 0

\* a collection of a line with valid and invalid vertices mixed and a line
\* with invalid vertices only has been rendered as one polyline
C19_Witness ==
    /\ rendered = "rendered"
    /\ \E k1, k2 \in 1..Len(layer.features) :
          /\ layer.features[k1] = LineMixed
          /\ Len(PrimitivesOf(k1)) = 1
          /\ Len(PrimitivesOf(k1)[1].coordinates) = 3
          /\ layer.features[k2] = LineAllBad
          /\ Len(PrimitivesOf(k2)) = 0
    /\ Len(primitives) = 1

\* the feature at position k is drawn as exactly one marker at its coordinate
OneMarker(k) ==
    LET c == layer.features[k].geometry.coordinates
        ps == PrimitivesOf(k)
    IN  /\ Len(ps) = 1
        /\ ps[1].element = "Marker"
        /\ ps[1].coordinates = <<[latitude |-> c.a[2], longitude |-> c.a[1]]>>

\* the Points of the collection that have a coordinate
PointsWithCoordinate ==
    {k \in FeaturesOfType("Point") :
        /\ IsArray(layer.features[k].geometry.coordinates)
        /\ Length(layer.features[k].geometry.coordinates) >= 2}

\* C20 as stated: a Point is drawn as exactly one marker at its coordinate,
\* labelled with its name attribute whenever it has one (whatever other key
\* it has), and with the generic label only when it has neither key.
C20_MarkerTitledByNameFirst ==
    rendered = "rendered" =>
       \A k \in PointsWithCoordinate :
          LET props == layer.features[k].properties
          IN  /\ OneMarker(k)
              /\ props.name # Undefined => PrimitivesOf(k)[1].title = props.name
              /\ PrimitivesOf(k)[1].title = InfrastructureTitle =>
                    (props.name = Undefined /\ props.BR_NAME = Undefined)

\* a text that is present and not empty
NonEmptyText(x) == x.k = "string" /\ x.n > 0

\* C20 amended: a Point whose coordinate has at least two components is
\* drawn as exactly one marker at that coordinate, labelled with its
\* BR_NAME when that is present and not empty, otherwise with its name when
\* that is present and not empty, otherwise with the generic label.
C20_MarkerTitledByBridgeNameFirst ==
    rendered = "rendered" =>
       \A k \in PointsWithCoordinate :
          LET props == layer.features[k].properties
          IN  /\ OneMarker(k)
              /\ PrimitivesOf(k)[1].title =
                    IF NonEmptyText(props.BR_NAME) THEN props.BR_NAME
                    ELSE IF NonEmptyText(props.name) THEN props.name
                    ELSE InfrastructureTitle

\* a point with BR_NAME and a name has been drawn under its BR_NAME, and a
\* point with a name only under its name
C20_Witness ==
    /\ rendered = "rendered"
    /\ \E k1, k2 \in PointsWithCoordinate :
          /\ layer.features[k1] = NamedBridge
          /\ PrimitivesOf(k1)[1].title = NamedBridge.properties.BR_NAME
          /\ layer.features[k2] = NamedPost
          /\ PrimitivesOf(k2)[1].title = NamedPost.properties.name


\* C26: when the dataset has been loaded before the device location is
\* obtained, the getCurrentLocation call that succeeds with the fix leaves
\* the nearby view equal to the proximity filter of the complete view
\* around the fix with radius 10 km.
C26_LocationAfterLoadFilters ==
    (/\ lastOp.op \in {"location", "locationUpdate"}
     /\ lastOp.before # <<>>)
    => geoJsonData = filterNearbyFeatures(allGeoJsonData, lastOp.lat, lastOp.lon, TenKm)

\* C27: on the supabase screen, once every load in flight has completed and
\* the last of them delivered rows, the complete view and the nearby view
\* hold the dataset of the infrastructure type selected last.
C27_LatestSelectedTypeShown ==
    (/\ screen = "supabase"
     /\ Len(loads) = 0
     /\ lastOp.op = "loadOk")
    => /\ allGeoJsonData = SupabaseDataset(ProjectsOfType(ProjectType(infrastructureType)))
       /\ geoJsonData = allGeoJsonData

\* the step is a reference update: a map-centre event, the location button,
\* or the device location being obtained
ReferenceUpdateStep ==
    lastOp'.op \in {"regionChange", "center", "location", "locationUpdate"}

\* C28: a reference update never changes the complete view, whatever the
\* coordinate (valid or not) and whatever the complete view holds.
C28_ReferenceUpdateKeepsComplete ==
    [][ReferenceUpdateStep => allGeoJsonData' = allGeoJsonData]_vars

\* a map-centre event with a finite coordinate has dropped features from the
\* nearby view while the complete view holds what it held before
C28_Witness ==
    /\ lastOp.op = "regionChange"
    /\ Finite(lastOp.lat) /\ Finite(lastOp.lon)
    /\ lastOp.before # <<>>
    /\ lastOp.before = FlatIds(allGeoJsonData)
    /\ Len(FlatIds(geoJsonData)) < Len(FlatIds(allGeoJsonData))

\* C22: pressing a primitive of the map hands to handleFeaturePress the
\* very feature the primitive was made from, with every property it has:
\* the feature at the primitive's index of the collection drawn, which is a
\* feature of the complete view and the one whose geometry gives the
\* primitive its coordinates, also after the nearby view has been filtered
\* and its features have new indexes.
C22_PressReportsSourceFeature ==
    lastOp.op = "featurePress" =>
        LET p == lastOp.raw[1]
            index == p.key.index
        IN  /\ p.feature = geoJsonData[p.layer].features[index + 1]
            /\ \E m \in 1..Len(allGeoJsonData[p.layer].features) :
                  allGeoJsonData[p.layer].features[m] = p.feature
            /\ LET made == FeatureElements(p.feature, index, StrokeColorAt(p.layer - 1),
                                           StrokeWidthAt(p.layer - 1))
               IN  \E k \in 1..Len(made) :
                      made[k].key = p.key /\ made[k].coordinates = p.coordinates
            /\ p.shown = handleFeaturePress(geoJsonData[p.layer].features[index + 1])

\* a named bridge is pressed after the filter has dropped the feature before
\* it, so that its index in the nearby view is not its index in the
\* complete view
C22_Witness ==
    /\ lastOp.op = "featurePress"
    /\ lastOp.raw[1].shown.alert = "Bridge"
    /\ \E m \in 1..Len(allGeoJsonData[lastOp.raw[1].layer].features) :
          /\ allGeoJsonData[lastOp.raw[1].layer].features[m] = lastOp.raw[1].feature
          /\ m # lastOp.raw[1].key.index + 1

\* the polylines of layer i of the render
StrokedOf(i) ==
    {strokes[i].elements[k] : k \in {j \in 1..Len(strokes[i].elements) :
                                       strokes[i].elements[j].element = "Polyline"}}

FormComplete ==
    /\ photo # NoPhoto
    /\ selectedIssueType # ""
    /\ \E k \in 1..Len(description) : description[k] \notin Whitespace

\* the alerts of the fields that are missing
MissingAlerts ==
    (IF photo = NoPhoto THEN {"Missing Photo"} ELSE {})
    \cup (IF selectedIssueType = "" THEN {"Missing Issue Type"} ELSE {})
    \cup (IF \A k \in 1..Len(description) : description[k] \in Whitespace
          THEN {"Missing Description"} ELSE {})

\* C29: submitReport starts a submission only when a photo is present, an
\* issue type is selected and the description is not blank after trimming;
\* otherwise it shows the alert of a missing field and leaves photo,
\* selectedIssueType, description and isSubmitting unchanged.
C29_SubmitOnlyWhenComplete ==
    [][cameraOp' = "submitReport" =>
         IF FormComplete
         THEN isSubmitting' /\ pending' = pending + 1 /\ alert' = "none"
         ELSE /\ alert' \in MissingAlerts
              /\ pending' = pending
              /\ UNCHANGED <<photo, selectedIssueType, description, isSubmitting>>]_vars

\* submitReport has refused a form whose description is blanks only
C29_Witness ==
    /\ cameraOp = "submitReport"
    /\ alert = "Missing Description"
    /\ Len(description) > 0
    /\ photo # NoPhoto /\ selectedIssueType # ""
    /\ ~isSubmitting /\ pending = 0

\* C30: at most one submission is in flight at any time, and isSubmitting
\* is true exactly while one is: from its start until it has finished,
\* whether it succeeded or failed; none starts while isSubmitting is true.
C30_OneSubmissionInFlight ==
    /\ pending <= 1
    /\ isSubmitting <=> pending = 1

\* a submission has failed after one that succeeded, and isSubmitting is
\* false again
C30_Witness ==
    /\ cameraOp = "submitFailed"
    /\ ~isSubmitting /\ pending = 0
    /\ alert = "Error"
    /\ photo # NoPhoto

\* the characters of a text without the blanks at its ends
Stripped(chars) ==
    LET inside == {k \in 1..Len(chars) : chars[k] # " "}
    IN  IF inside = {} THEN <<>>
        ELSE SubSeq(chars, CHOOSE a \in inside : \A k \in inside : a <= k,
                           CHOOSE b \in inside : \A k \in inside : k <= b)

\* an element that is null, empty, or blanks only
Blank(x) == x.null \/ \A k \in 1..Len(x.chars) : x.chars[k] = " "

\* the elements of an array that are not blank, each stripped
Cleaned(array) ==
    LET NotBlank(x) == ~Blank(x)
        kept == SelectSeq(array.items, NotBlank)
    IN  TextArray([k \in 1..Len(kept) |-> Text(Stripped(kept[k].chars))])

\* what the claim has the column hold for the value a statement gave it
CleanColumn(given, stored) ==
    IF given.null THEN stored.null ELSE stored = Cleaned(given)

\* C25: after any inserts and updates on reports, every stored array that
\* is not null has no empty and no null element, and the row the last
\* statement wrote holds, for each array given, its elements trimmed with
\* the empty and blank ones removed (the empty array when none is left).
C25_StoredArraysClean ==
    /\ \A id \in 1..Len(reports) :
         \A array \in {reports[id].observed_materials, reports[id].observed_hazards} :
            ~array.null =>
               \A k \in 1..Len(array.items) :
                  ~array.items[k].null /\ array.items[k].chars # <<>>
    /\ reportOp.op \in {"insert", "update"} =>
         /\ CleanColumn(reportOp.new.observed_materials,
                        reports[reportOp.id].observed_materials)
         /\ CleanColumn(reportOp.new.observed_hazards,
                        reports[reportOp.id].observed_hazards)

\* the rows of the view within the radius of the call
Matching ==
    {row \in centroids :
        /\ ~row.center.null
        /\ Distance2(row.center, query.lat, query.lng) <= MetersOf(query) * MetersOf(query)}

ReturnedIds == {found.rows[k].project_id : k \in 1..Len(found.rows)}

\* C23: nearby_projects(lat, lng, meters) returns at most 100 records, each
\* a project within `meters` (500 when not given) of the coordinate, none
\* twice, in non-decreasing order of distance, and they are the nearest: no
\* matching record left out is nearer than a returned one, and none is
\* left out while fewer than 100 are returned.
C23_NearestWithinRadiusCapped ==
    found.done =>
        /\ Len(found.rows) <= 100
        /\ Cardinality(ReturnedIds) = Len(found.rows)
        /\ \A k \in 1..Len(found.rows) :
              /\ \E row \in Matching :
                    /\ row.project_id = found.rows[k].project_id
                    /\ row.center = found.rows[k].center
              /\ found.rows[k].distance_m
                    = Sqrt(Distance2(found.rows[k].center, query.lat, query.lng))
              /\ found.rows[k].distance_m <= (IF query.given THEN query.meters ELSE 500)
        /\ \A k \in 1..(Len(found.rows) - 1) :
              found.rows[k].distance_m <= found.rows[k + 1].distance_m
        /\ \A row \in Matching :
              row.project_id \notin ReturnedIds =>
                 /\ Len(found.rows) = 100
                 /\ \A k \in 1..Len(found.rows) :
                       Distance2(found.rows[k].center, query.lat, query.lng)
                          <= Distance2(row.center, query.lat, query.lng)

\* a call without a radius has returned 100 records of the more than 100
\* within 500 metres
C23_Witness ==
    /\ found.done
    /\ ~query.given
    /\ Len(found.rows) = 100
    /\ Cardinality(Matching) > 100

\* the view holds exactly one centre for each project with a geometry, the
\* point itself or the centroid, and nothing else
ExactCentres ==
    /\ \A project \in projectsTable :
         project.geom # NullGeom =>
            /\ Cardinality({row \in centroids : row.project_id = project.project_id}) = 1
            /\ \E row \in centroids :
                  /\ row.project_id = project.project_id
                  /\ ~row.center.null
                  /\ IF project.geom.type = "POINT"
                     THEN Place(row.center.north, row.center.east) = project.geom.points[1]
                     ELSE Place(row.center.north, row.center.east) = st_centroid(project.geom)
    /\ \A row \in centroids :
         \E project \in projectsTable :
            project.project_id = row.project_id /\ project.geom # NullGeom

\* what a nearby query returns is of the projects as they are now
NearbyIsCurrent ==
    LET rows == nearby_projects(centroids, 0, 0, DefaultMeters)
    IN  \A k \in 1..Len(rows) :
           \E project \in projectsTable :
              /\ project.project_id = rows[k].project_id
              /\ project.geom # NullGeom
              /\ CenterOf(project.geom) = rows[k].center

=============================================================================
